---------------------------- MODULE Spec2Model ----------------------------
(***************************************************************************)
(* Model of the BBRv3 congestion controller of picoquic                    *)
(* (src/picoquic/bbr.c): one controller attached to one path, driven by    *)
(* the notifications of picoquic_bbr_notify, plus picoquic_bbr_observe and *)
(* picoquic_bbr_delete.                                                    *)
(*                                                                         *)
(* Representation.                                                         *)
(*  - Byte counts, rates (bytes/s) and times (microseconds) keep the       *)
(*    magnitudes of the code.  TLC integers are 32 bits wide, so products  *)
(*    that need 64 bits in the code go through MulDiv / Mul64, which give  *)
(*    the 64-bit result (the inputs of the model keep every stored value   *)
(*    below 2^31).                                                         *)
(*  - UINT64_MAX and UINT32_MAX are the "unset / infinite" sentinels of    *)
(*    the code; the few places where the code does wrapping arithmetic on  *)
(*    a sentinel are spelled out where they occur.                         *)
(*  - The gains are doubles with two decimals in the code; the model holds *)
(*    them in hundredths (2.77 -> 277).  pacing_rate is a double in        *)
(*    bytes/s; the model holds it in 1/100 byte/s.                         *)
(*  - The casts (uint64_t)(0.7 * x), (uint64_t)(0.02 * x) and              *)
(*    (uint64_t)(0.85 * x) are computed as the IEEE-754 double product     *)
(*    and truncation give them (see BetaMul).                              *)
(***************************************************************************)
EXTENDS Integers, Sequences, FiniteSets, TLC

(***************************************************************************)
(* Constants of the code                                                   *)
(***************************************************************************)
UINT64_MAX ==
    2147483647
UINT32_MAX ==
    2147483646

BBRPacingMarginPercent ==
    1
BBRStartupPacingGain ==
    277
BBRStartupCwndGain ==
    200
BBRLossThresh ==
    2
BBRBeta ==
    70
BBRHeadroom ==
    15
BBRMinPipeCwnd ==
    4
BBRMaxBwFilterLen ==
    2
BBRExtraAckedFilterLen ==
    10
BBRMinRTTFilterLen ==
    10000000
BBRProbeRTTCwndGain ==
    50
BBRProbeRTTDuration ==
    200000
BBRProbeRTTInterval ==
    5000000
BBRProbeBwDownPacingGain ==
    90
BBRProbeBwDownCwndGain ==
    200
BBRProbeBwCruisePacingGain ==
    100
BBRProbeBwCruiseCwndGain ==
    200
BBRProbeBwRefillPacingGain ==
    125
BBRProbeBwRefillCwndGain ==
    200
BBRProbeBwUpPacingGain ==
    125
BBRProbeBwUpCwndGain ==
    200
BBRMinRttMarginPercent ==
    2
\* BBREnterProbeRTT: pacing_gain = 1.0
BBRProbeRTTPacingGain ==
    100
\* BBRSetSendQuantum: the 150000 B/s threshold and the 0x10000 cap
BBRPacingRateLow ==
    150000
BBRSendQuantumMax ==
    65536
\* BBRSetRsFromAckState: delivery rate when nothing was measured
BBRDefaultDeliveryRate ==
    40000
\* BBRRaiseInflightHiSlope: cap of bw_probe_up_rounds
BBRProbeUpRoundsMax ==
    30
\* BBRIsRenoCoexistenceProbeTime: cap of the round bound
BBRRenoRoundsMax ==
    63
\* BBRExitStartupLongRtt: min_rtt above 30 s is pathological
BBRPathologicalMinRtt ==
    30000000
\* BBRPickProbeWait: 2 s plus up to 1 s
BBRProbeWaitBase ==
    2000000
BBRProbeWaitSpread ==
    1000000

\* Constants of the host transport (picoquic_internal.h), values of the
\* specification: 250 ms, 10 MSS of 1500 bytes, 100 ms, 1 s.
PICOQUIC_INITIAL_RTT ==
    250000
PICOQUIC_CWIN_INITIAL ==
    15000
PICOQUIC_TARGET_RENO_RTT ==
    100000
PICOQUIC_TARGET_SATELLITE_RTT ==
    1000000

\* the gain 1.0 of BBRCheckDrain and BBRCheckTimeToCruise, in hundredths
GainOne ==
    100
\* the gain 1.25 of the ProbeBW_UP exit test, in hundredths
GainUpExit ==
    125
\* The pacing rate (a double in the source) is held in 1/PacingScale byte/s.
PacingScale ==
    100

(***************************************************************************)
(* 64-bit arithmetic on 32-bit integers                                    *)
(***************************************************************************)
Max(a, b) ==
    IF a >= b THEN a ELSE b

Min(a, b) ==
    IF a <= b THEN a ELSE b

\* a * b of the code, saturated at UINT64_MAX (every value it is compared
\* with or subtracted from is smaller).
Mul64(a, b) ==
    IF a = 0 \/ b = 0 THEN 0
    ELSE IF a > UINT64_MAX \div b THEN UINT64_MAX
    ELSE a * b

RECURSIVE MulDivQR(_, _, _)
\* <<q, r>> with a * b = q * c + r and 0 <= r < c, by binary long
\* multiplication; no intermediate exceeds 3 * c + a.
MulDivQR(a, b, c) ==
    IF b = 0 THEN <<0, 0>>
    ELSE LET h == MulDivQR(a, b \div 2, c)
             t == 2 * h[2] + (b % 2) * (a % c)
         IN  <<2 * h[1] + (b % 2) * (a \div c) + (t \div c), t % c>>

\* (a * b) / c of the code, for a 64-bit product.
MulDiv(a, b, c) ==
    IF a = 0 \/ b = 0 THEN 0
    ELSE IF b <= UINT64_MAX \div a THEN (a * b) \div c
    ELSE MulDivQR(a, b, c)[1]

RECURSIVE Pow2Floor(_)
\* the largest power of two that is <= n (n >= 1)
Pow2Floor(n) ==
    IF n < 2 THEN 1 ELSE 2 * Pow2Floor(n \div 2)

\* (uint64_t)(BBRBeta * (double)x): 0.7 is not a double; the nearest double
\* is 0.7 - 0.4 * 2^-53, so for x = 10 k the product 7k - 4k * 2^-53 rounds
\* to the double below 7k, and truncates to 7k - 1, exactly when
\* 4k > 2^floor(log2(7k)).  Otherwise the result is floor(7x/10).
BetaMul(x) ==
    IF x > 0 /\ x % 10 = 0 /\ 4 * (x \div 10) > Pow2Floor(7 * (x \div 10))
    THEN (BBRBeta * (x \div 10)) \div 10 - 1
    ELSE MulDiv(BBRBeta, x, 100)

\* (uint64_t)(gain * (double)x) for the gains 0.5, 1.0, 1.25 and 2.0, all
\* exact doubles: floor(gain * x).
GainMul(gain, x) ==
    MulDiv(gain, x, 100)

RECURSIVE BitXor(_, _)
BitXor(a, b) ==
    IF a = 0 THEN b
    ELSE IF b = 0 THEN a
    ELSE 2 * BitXor(a \div 2, b \div 2) + (((a % 2) + (b % 2)) % 2)

(***************************************************************************)
(* Enumerations                                                            *)
(***************************************************************************)
picoquic_bbr_alg_state_t ==
    <<"startup", "drain", "probe_bw_down", "probe_bw_cruise",
      "probe_bw_refill", "probe_bw_up", "probe_rtt", "startup_long_rtt">>

picoquic_bbr_ack_phase_t ==
    <<"probe_starting", "probe_stopping", "refilling", "probe_feedback">>

\* (uint64_t)bbr_state->state
StateEnumValue(st) ==
    (CHOOSE i \in 1..Len(picoquic_bbr_alg_state_t) :
        picoquic_bbr_alg_state_t[i] = st) - 1

(***************************************************************************)
(* Windowed filters                                                        *)
(***************************************************************************)
SeqMax(f) ==
    CHOOSE m \in {f[i] : i \in 1..Len(f)} : \A i \in 1..Len(f) : f[i] <= m

\* update_windowed_max_filter: <<filter, returned maximum>>
update_windowed_max_filter(filter, v, cycle, filterLen) ==
    LET k  == (cycle % filterLen) + 1
        f1 == IF filter[k] < v THEN [filter EXCEPT ![k] = v] ELSE filter
    IN  <<f1, Max(v, SeqMax(f1))>>

start_windowed_max_filter_period(filter, cycle, filterLen) ==
    [filter EXCEPT ![(cycle % filterLen) + 1] = 0]


(***************************************************************************)
(* The controller and its path.  A context s = [b |-> ..., p |-> ...]      *)
(* holds picoquic_bbr_state_t (b) and the fields of picoquic_path_t that   *)
(* bbr.c reads or writes (p).  Every function of bbr.c is an operator from *)
(* contexts to contexts; a function that also returns a value gives        *)
(* [ret |-> value, s |-> context].                                         *)
(***************************************************************************)

\* The random context is the low RandomContextBits bits of the code's
\* 64-bit context: xor, add and multiply keep the low bits exact.
RandomContextModulus ==
    2^15
\* 0xfedcba9876543210 and 0x0123456789abcdef, low 15 bits
RandomSeedLow ==
    12816
RandomClientLow ==
    19951

BBRInitRandom(p, current_time) ==
    LET r0 == BitXor(RandomSeedLow, current_time % RandomContextModulus)
        r1 == IF p.client_mode
              THEN (r0 + RandomClientLow) % RandomContextModulus
              ELSE r0
    IN  IF p.unique_path_id > 0 /\ p.unique_path_id # UINT64_MAX
        THEN (r1 * (p.unique_path_id + 1)) % RandomContextModulus
        ELSE r1

\* picoquic_test_random (picoquic utilities): the next value of the
\* reproducible stream; here a linear congruential step on the context.
picoquic_test_random(random_context) ==
    (random_context * 20077 + 12345) % RandomContextModulus

\* picoquic_test_uniform_random: [ret |-> uniform in 0 .. rnd_max - 1,
\* ctx |-> advanced context]
picoquic_test_uniform_random(random_context, rnd_max) ==
    LET c == picoquic_test_random(random_context)
    IN  [ret |-> MulDiv(c, rnd_max, RandomContextModulus), ctx |-> c]

\* picoquic_min_max_rtt_t after memset
RttFilterZero ==
    [is_init |-> FALSE, sample_current |-> 0, sample_max |-> 0]

\* memset(bbr_state, 0, sizeof(picoquic_bbr_state_t))
BBRStateZero ==
    [state |-> "startup", round_count |-> 0, rounds_since_probe |-> 0,
     round_start |-> FALSE, next_round_delivered |-> 0,
     pacing_rate |-> 0, send_quantum |-> 0, prior_cwnd |-> 0,
     pacing_gain |-> 0, cwnd_gain |-> 0, packet_conservation |-> FALSE,
     max_bw |-> 0, bw_hi |-> 0, bw_lo |-> 0, bw |-> 0, btl_bw |-> 0,
     min_rtt |-> 0, bdp |-> 0, extra_acked |-> 0, offload_budget |-> 0,
     max_inflight |-> 0, inflight_hi |-> 0, inflight_lo |-> 0,
     bw_latest |-> 0, inflight_latest |-> 0,
     MaxBwFilter |-> [i \in 1..BBRMaxBwFilterLen |-> 0], cycle_count |-> 0,
     extra_acked_interval_start |-> 0, extra_acked_delivered |-> 0,
     ExtraACKedFilter |-> [i \in 1..BBRExtraAckedFilterLen |-> 0],
     filled_pipe |-> FALSE, full_bw |-> 0, full_bw_count |-> 0,
     min_rtt_stamp |-> 0, probe_rtt_min_delay |-> 0,
     probe_rtt_min_stamp |-> 0, probe_rtt_done_stamp |-> 0,
     min_rtt_margin |-> 0, probe_rtt_expired |-> FALSE,
     probe_rtt_round_done |-> FALSE, idle_restart |-> FALSE,
     rounds_since_bw_probe |-> 0, bw_probe_wait |-> 0, cycle_stamp |-> 0,
     bw_probe_up_cnt |-> 0, bw_probe_up_rounds |-> 0,
     bw_probe_samples |-> 0, bw_probe_up_acks |-> 0,
     ack_phase |-> "probe_starting",
     loss_in_round |-> FALSE, loss_round_start |-> FALSE,
     loss_round_delivered |-> 0,
     random_context |-> 0, rtt_filter |-> RttFilterZero, bdp_seed |-> 0]

BBRInitFullPipe(b) ==
    [b EXCEPT !.filled_pipe = FALSE, !.full_bw = 0, !.full_bw_count = 0]

BBRResetCongestionSignals(b) ==
    [b EXCEPT !.loss_in_round = FALSE, !.bw_latest = 0,
              !.inflight_latest = 0]

BBRResetLowerBounds(b) ==
    [b EXCEPT !.bw_lo = UINT64_MAX, !.inflight_lo = UINT64_MAX]

BBRInitRoundCounting(b) ==
    [b EXCEPT !.next_round_delivered = 0, !.round_start = FALSE,
              !.round_count = 0]

\* pacing_rate = BBRStartupPacingGain * 1000000 * PICOQUIC_CWIN_INITIAL
\*               / initial_rtt
BBRInitPacingRate(b, p) ==
    LET initial_rtt ==
            IF p.smoothed_rtt # PICOQUIC_INITIAL_RTT \/ p.rtt_variant # 0
            THEN p.smoothed_rtt
            ELSE PICOQUIC_INITIAL_RTT
    IN  [b EXCEPT !.pacing_rate =
            MulDiv(BBRStartupPacingGain * PICOQUIC_CWIN_INITIAL,
                   1000000, initial_rtt)]

BBREnterStartup(b) ==
    [b EXCEPT !.state = "startup",
              !.pacing_gain = BBRStartupPacingGain,
              !.cwnd_gain = BBRStartupCwndGain]

BBROnInit(p, current_time) ==
    LET b0 == [BBRStateZero EXCEPT
                 !.random_context = BBRInitRandom(p, current_time),
                 !.min_rtt =
                     IF p.smoothed_rtt = PICOQUIC_INITIAL_RTT
                        /\ p.rtt_variant = 0
                     THEN UINT64_MAX
                     ELSE p.smoothed_rtt]
        b1 == [b0 EXCEPT !.probe_rtt_min_stamp = current_time,
                         !.probe_rtt_min_delay = b0.min_rtt,
                         !.min_rtt_stamp = current_time,
                         !.extra_acked_interval_start = current_time,
                         !.extra_acked_delivered = 0]
    IN  BBREnterStartup(
          BBRInitPacingRate(
            BBRInitFullPipe(
              BBRInitRoundCounting(
                BBRResetLowerBounds(
                  BBRResetCongestionSignals(b1)))), p))

picoquic_bbr_reset(s, current_time) ==
    [s EXCEPT !.b = BBROnInit(s.p, current_time)]

(***************************************************************************)
(* Path model: congestion window                                           *)
(***************************************************************************)
IsInAProbeBWState(b) ==
    b.state \in {"probe_bw_down", "probe_bw_cruise", "probe_bw_refill",
                 "probe_bw_up"}

BBRModulateCwndForRecovery(s, rs) ==
    LET c1 == IF rs.newly_lost > 0
              THEN IF s.p.cwin > rs.newly_lost + s.p.send_mtu
                   THEN s.p.cwin - rs.newly_lost
                   ELSE s.p.send_mtu
              ELSE s.p.cwin
        c2 == IF s.b.packet_conservation
                 /\ c1 < s.p.bytes_in_transit + rs.newly_acked
              THEN s.p.bytes_in_transit + rs.newly_acked
              ELSE c1
    IN  [s EXCEPT !.p.cwin = c2]

BBRInflightWithHeadroom(s) ==
    IF s.b.inflight_hi = UINT64_MAX THEN UINT64_MAX
    ELSE Max(MulDiv(100 - BBRHeadroom, s.b.inflight_hi, 100),
             BBRMinPipeCwnd * s.p.send_mtu)

\* Variant of BBRBoundCwndForModel that does not keep the cap at or above
\* BBRMinPipeCwnd packets.
BBRBoundCwndForModel_NoMinPipeCap(s) ==
    LET cap0 == IF IsInAProbeBWState(s.b) /\ s.b.state # "probe_bw_cruise"
                THEN IF s.b.inflight_hi > 0 THEN s.b.inflight_hi
                     ELSE UINT64_MAX
                ELSE IF s.b.state \in {"probe_rtt", "probe_bw_cruise"}
                     THEN BBRInflightWithHeadroom(s)
                     ELSE UINT64_MAX
        Bound(cap) == IF s.p.cwin > cap THEN [s EXCEPT !.p.cwin = cap] ELSE s
    IN  Bound(Min(cap0, s.b.inflight_lo))

\* Variant of BBRBoundCwndForModel without the cap of inflight_hi in
\* ProbeBW_Down, Refill and Up.
BBRBoundCwndForModel_NoInflightHi(s) ==
    LET cap0 == IF s.b.state \in {"probe_rtt", "probe_bw_cruise"}
                THEN BBRInflightWithHeadroom(s)
                ELSE UINT64_MAX
        Bound(cap) == IF s.p.cwin > cap THEN [s EXCEPT !.p.cwin = cap] ELSE s
    IN  Bound(Max(Min(cap0, s.b.inflight_lo),
                  BBRMinPipeCwnd * s.p.send_mtu))

BBRBoundCwndForModel(s) ==
    LET cap0 == IF IsInAProbeBWState(s.b) /\ s.b.state # "probe_bw_cruise"
                THEN IF s.b.inflight_hi > 0 THEN s.b.inflight_hi
                     ELSE UINT64_MAX
                ELSE IF s.b.state \in {"probe_rtt", "probe_bw_cruise"}
                     THEN BBRInflightWithHeadroom(s)
                     ELSE UINT64_MAX
        Bound(cap) == IF s.p.cwin > cap THEN [s EXCEPT !.p.cwin = cap] ELSE s
    IN  Bound(Max(Min(cap0, s.b.inflight_lo),
                  BBRMinPipeCwnd * s.p.send_mtu))

\* Sets bbr_state->bdp unless min_rtt is unset.
BBRBDPMultipleWithBw(s, gain, bw) ==
    LET Result(bdp) ==
            [ret |-> GainMul(gain, bdp), s |-> [s EXCEPT !.b.bdp = bdp]]
    IN  IF s.b.min_rtt = UINT64_MAX
        THEN [ret |-> PICOQUIC_CWIN_INITIAL * s.p.send_mtu, s |-> s]
        ELSE Result(MulDiv(bw, s.b.min_rtt, 1000000))

BBRBDPMultiple(s, gain) ==
    BBRBDPMultipleWithBw(s, gain, s.b.bw)

BBRUpdateOffloadBudget(b) ==
    [b EXCEPT !.offload_budget = 3 * b.send_quantum]

BBRQuantizationBudget(s, inflight) ==
    LET Budget(b1) ==
            LET i2 == Max(Max(inflight, b1.offload_budget),
                          BBRMinPipeCwnd * s.p.send_mtu)
            IN  [ret |-> IF b1.state = "probe_bw_up"
                         THEN i2 + 2 * s.p.send_mtu
                         ELSE i2,
                 s |-> [s EXCEPT !.b = b1]]
    IN  Budget(BBRUpdateOffloadBudget(s.b))

BBRInflightWithBw(s, gain, bw) ==
    LET Quantize(m) == BBRQuantizationBudget(m.s, m.ret)
    IN  Quantize(BBRBDPMultipleWithBw(s, gain, bw))

BBRInflight(s, gain) ==
    BBRInflightWithBw(s, gain, s.b.bw)

BBRUpdateMaxInflight(s) ==
    LET Store(q) == [q.s EXCEPT !.b.max_inflight = q.ret]
        Quantize(m) ==
            Store(BBRQuantizationBudget(m.s, m.ret + m.s.b.extra_acked))
    IN  Quantize(BBRBDPMultiple(s, s.b.cwnd_gain))

BBRProbeRTTCwnd(s) ==
    LET Floor(m) ==
            [ret |-> Max(m.ret, BBRMinPipeCwnd * s.p.send_mtu), s |-> m.s]
    IN  Floor(BBRBDPMultiple(s, BBRProbeRTTCwndGain))

\* Variant of BBRBoundCwndForProbeRTT that leaves the window alone.
BBRBoundCwndForProbeRTT_NoCap(s) ==
    s

BBRBoundCwndForProbeRTT(s) ==
    LET Bound(c) == IF c.s.p.cwin > c.ret THEN [c.s EXCEPT !.p.cwin = c.ret]
                    ELSE c.s
    IN  IF s.b.state = "probe_rtt" THEN Bound(BBRProbeRTTCwnd(s)) ELSE s

BBRSetCwnd(s, rs) ==
    LET Grow(s1) ==
            LET c1 == IF s1.b.filled_pipe
                      THEN Min(s1.p.cwin + rs.newly_acked, s1.b.max_inflight)
                      ELSE IF s1.p.cwin < s1.b.max_inflight
                              \/ s1.p.delivered < PICOQUIC_CWIN_INITIAL
                           THEN s1.p.cwin + rs.newly_acked
                           ELSE s1.p.cwin
            IN  IF ~s1.b.packet_conservation
                THEN [s1 EXCEPT !.p.cwin =
                                   Max(c1, BBRMinPipeCwnd * s1.p.send_mtu)]
                ELSE s1
    IN  BBRBoundCwndForModel(
            BBRBoundCwndForProbeRTT(
                Grow(BBRModulateCwndForRecovery(
                         BBRUpdateMaxInflight(s), rs))))

BBRSaveCwnd(s) ==
    IF s.b.state # "probe_rtt" THEN s.p.cwin
    ELSE Max(s.b.prior_cwnd, s.p.cwin)

\* Variant of BBRRestoreCwnd that keeps the ProbeRTT window.
BBRRestoreCwnd_KeepsProbeRTTCwnd(s) ==
    s.p.cwin

BBRRestoreCwnd(s) ==
    Max(s.b.prior_cwnd, s.p.cwin)

\* The RTO entry: save the window and fall back to one packet beyond the
\* bytes in flight.  No function of bbr.c calls it.
BBROnEnterRTO(s) ==
    [s EXCEPT !.b.prior_cwnd = BBRSaveCwnd(s),
              !.p.cwin = s.p.bytes_in_transit + s.p.send_mtu]

(***************************************************************************)
(* Pacing rate and send quantum                                            *)
(***************************************************************************)
\* Variant of BBRSetPacingRateWithGain that writes the rate whether or not
\* the pipe is filled.
BBRSetPacingRateWithGain_Unguarded(b, pacing_gain) ==
    [b EXCEPT !.pacing_rate =
                  MulDiv(pacing_gain,
                         b.bw * (100 - BBRPacingMarginPercent), 100)]

BBRSetPacingRateWithGain(b, pacing_gain) ==
    LET rate == MulDiv(pacing_gain,
                       b.bw * (100 - BBRPacingMarginPercent), 100)
    IN  IF b.filled_pipe \/ rate > b.pacing_rate
        THEN [b EXCEPT !.pacing_rate = rate]
        ELSE b

BBRSetPacingRate(b) ==
    BBRSetPacingRateWithGain(b, b.pacing_gain)

\* Variant of BBRSetSendQuantum without the 1*MSS / 2*MSS floor.
BBRSetSendQuantum_NoFloor(b, p) ==
    LET q0 == b.pacing_rate \div (1000 * PacingScale)
        q1 == IF q0 > BBRSendQuantumMax THEN BBRSendQuantumMax ELSE q0
    IN  [b EXCEPT !.send_quantum = q1]

BBRSetSendQuantum(b, p) ==
    LET floor == IF b.pacing_rate < BBRPacingRateLow * PacingScale
                 THEN 1 * p.send_mtu
                 ELSE 2 * p.send_mtu
        q0 == b.pacing_rate \div (1000 * PacingScale)
        q1 == IF q0 > BBRSendQuantumMax THEN BBRSendQuantumMax ELSE q0
    IN  [b EXCEPT !.send_quantum = IF q1 < floor THEN floor ELSE q1]

(***************************************************************************)
(* Round counting, delivery and congestion signals                         *)
(***************************************************************************)
\* Variant of BBRStartRound that anchors the round on the delivered bytes
\* alone (the alternative the source compiles out).
BBRStartRound_DeliveredOnly(s) ==
    [s EXCEPT !.b.next_round_delivered = s.p.delivered]

BBRStartRound(s) ==
    [s EXCEPT !.b.next_round_delivered =
                  s.p.delivered + s.p.bytes_in_transit]

\* Variant of BBRUpdateRound that leaves round_start as it was when no
\* round starts.
BBRUpdateRound_StickyRoundStart(s) ==
    IF s.p.delivered >= s.b.next_round_delivered
    THEN LET s1 == BBRStartRound(s)
         IN  [s1 EXCEPT
                !.b.round_count = s.b.round_count + 1,
                !.b.rounds_since_probe = s.b.rounds_since_probe + 1,
                !.b.round_start = TRUE,
                !.b.ExtraACKedFilter =
                    start_windowed_max_filter_period(
                        s.b.ExtraACKedFilter, s.b.round_count + 1,
                        BBRExtraAckedFilterLen)]
    ELSE s

BBRUpdateRound(s) ==
    IF s.p.delivered >= s.b.next_round_delivered
    THEN LET s1 == BBRStartRound(s)
         IN  [s1 EXCEPT
                !.b.round_count = s.b.round_count + 1,
                !.b.rounds_since_probe = s.b.rounds_since_probe + 1,
                !.b.round_start = TRUE,
                !.b.ExtraACKedFilter =
                    start_windowed_max_filter_period(
                        s.b.ExtraACKedFilter, s.b.round_count + 1,
                        BBRExtraAckedFilterLen)]
    ELSE [s EXCEPT !.b.round_start = FALSE]

BBRUpdateLatestDeliverySignals(s, rs) ==
    LET prior_delivered == s.p.delivered - rs.delivered
        newRound == prior_delivered >= s.b.loss_round_delivered
    IN  [s EXCEPT
           !.b.bw_latest = Max(s.b.bw_latest, rs.delivery_rate),
           !.b.inflight_latest = Max(s.b.inflight_latest, rs.delivered),
           !.b.loss_round_delivered =
               IF newRound THEN s.p.delivered ELSE s.b.loss_round_delivered,
           !.b.loss_round_start = newRound]

BBRAdvanceLatestDeliverySignals(b, rs) ==
    IF b.loss_round_start
    THEN [b EXCEPT !.bw_latest = rs.delivery_rate,
                   !.inflight_latest = rs.delivered]
    ELSE b

BBRInitLowerBounds(s) ==
    [s EXCEPT
       !.b.bw_lo = IF s.b.bw_lo = UINT64_MAX THEN s.b.max_bw
                   ELSE s.b.bw_lo,
       !.b.inflight_lo = IF s.b.inflight_lo = UINT64_MAX THEN s.p.cwin
                         ELSE s.b.inflight_lo]

BBRLossLowerBounds(b) ==
    [b EXCEPT !.bw_lo = Max(BetaMul(b.bw_lo), b.bw_latest),
              !.inflight_lo = Max(BetaMul(b.inflight_lo),
                                  b.inflight_latest)]

\* Variant of BBRAdaptLowerBoundsFromCongestion that also adapts the bounds
\* in the ProbeBW phases.
BBRAdaptLowerBoundsFromCongestion_InProbeBW(s) ==
    IF s.b.loss_in_round
    THEN LET s1 == BBRInitLowerBounds(s)
         IN  [s1 EXCEPT !.b = BBRLossLowerBounds(s1.b)]
    ELSE s

BBRAdaptLowerBoundsFromCongestion(s) ==
    IF IsInAProbeBWState(s.b) THEN s
    ELSE IF s.b.loss_in_round
         THEN LET s1 == BBRInitLowerBounds(s)
              IN  [s1 EXCEPT !.b = BBRLossLowerBounds(s1.b)]
         ELSE s

\* Variant of BBRUpdateMaxBw that feeds every sample to the filter,
\* application-limited or not.
BBRUpdateMaxBw_FeedsAppLimited(s, rs) ==
    LET Filter(s1) ==
            LET f == update_windowed_max_filter(
                         s1.b.MaxBwFilter, rs.delivery_rate,
                         s1.b.cycle_count, BBRMaxBwFilterLen)
            IN  [s1 EXCEPT !.b.MaxBwFilter = f[1], !.b.max_bw = f[2]]
    IN  Filter(BBRUpdateRound(s))

BBRUpdateMaxBw(s, rs) ==
    LET Filter(s1) ==
            IF rs.delivery_rate >= s1.b.max_bw \/ ~rs.is_app_limited
            THEN LET f == update_windowed_max_filter(
                              s1.b.MaxBwFilter, rs.delivery_rate,
                              s1.b.cycle_count, BBRMaxBwFilterLen)
                 IN  [s1 EXCEPT !.b.MaxBwFilter = f[1], !.b.max_bw = f[2]]
            ELSE s1
    IN  Filter(BBRUpdateRound(s))

BBRAdvanceMaxBwFilter(b) ==
    [b EXCEPT !.cycle_count = b.cycle_count + 1,
              !.MaxBwFilter =
                  start_windowed_max_filter_period(
                      b.MaxBwFilter, b.cycle_count + 1, BBRMaxBwFilterLen)]

BBRUpdateCongestionSignals(s, rs) ==
    LET MarkLoss(s1) == IF rs.newly_lost > 0
                        THEN [s1 EXCEPT !.b.loss_in_round = TRUE]
                        ELSE s1
        Adapt(s2) == IF ~s2.b.loss_round_start THEN s2
                     ELSE [BBRAdaptLowerBoundsFromCongestion(s2)
                              EXCEPT !.b.loss_in_round = FALSE]
    IN  Adapt(MarkLoss(BBRUpdateMaxBw(s, rs)))

\* Variant of BBRBoundBWForModel that does not apply bw_lo.
BBRBoundBWForModel_NoBwLo(b) ==
    LET bw1 == b.max_bw
        bw2 == IF bw1 > b.bw_hi /\ b.bw_hi # 0 THEN b.bw_hi ELSE bw1
    IN  [b EXCEPT !.bw = bw2]

BBRBoundBWForModel(b) ==
    LET bw1 == IF b.max_bw > b.bw_lo THEN b.bw_lo ELSE b.max_bw
        bw2 == IF bw1 > b.bw_hi /\ b.bw_hi # 0 THEN b.bw_hi ELSE bw1
    IN  [b EXCEPT !.bw = bw2]

BBRUpdateACKAggregation(s, rs, current_time) ==
    LET interval == current_time - s.b.extra_acked_interval_start
        expected0 == Mul64(s.b.bw, interval)
        reset == s.b.extra_acked_delivered <= expected0
        expected_delivered == IF reset THEN 0 ELSE expected0
        delivered == (IF reset THEN 0 ELSE s.b.extra_acked_delivered)
                     + rs.newly_acked
        extra == Min(delivered - expected_delivered, s.p.cwin)
        f == update_windowed_max_filter(
                 s.b.ExtraACKedFilter, extra, s.b.round_count,
                 BBRExtraAckedFilterLen)
    IN  [s EXCEPT
           !.b.extra_acked_interval_start =
               IF reset THEN current_time
               ELSE s.b.extra_acked_interval_start,
           !.b.extra_acked_delivered = delivered,
           !.b.ExtraACKedFilter = f[1],
           !.b.extra_acked = f[2]]

(***************************************************************************)
(* ProbeBW: random wait, phase entries                                     *)
(***************************************************************************)
BBRRandomIntBetween(b, low, high) ==
    LET r == picoquic_test_uniform_random(b.random_context,
                                          (high - low) + 1)
    IN  [ret |-> low + r.ret, b |-> [b EXCEPT !.random_context = r.ctx]]

\* Variant of BBRPickProbeWait that forgets the 2 s base of the wait.
BBRPickProbeWait_NoBase(b) ==
    LET Wait(r1) ==
            LET Store(r2) ==
                    [r2.b EXCEPT !.rounds_since_bw_probe = r1.ret,
                                 !.bw_probe_wait = r2.ret]
            IN  Store(BBRRandomIntBetween(r1.b, 0, BBRProbeWaitSpread))
    IN  Wait(BBRRandomIntBetween(b, 0, 1))

BBRPickProbeWait(b) ==
    LET Wait(r1) ==
            LET Store(r2) ==
                    [r2.b EXCEPT !.rounds_since_bw_probe = r1.ret,
                                 !.bw_probe_wait = BBRProbeWaitBase + r2.ret]
            IN  Store(BBRRandomIntBetween(r1.b, 0, BBRProbeWaitSpread))
    IN  Wait(BBRRandomIntBetween(b, 0, 1))

BBRTargetInflight(s) ==
    IF s.b.bdp < s.p.cwin THEN s.b.bdp ELSE s.p.cwin

BBRIsRenoCoexistenceProbeTime(s) ==
    LET reno_rounds == BBRTargetInflight(s)
        rounds == IF reno_rounds < BBRRenoRoundsMax THEN reno_rounds
                  ELSE BBRRenoRoundsMax
    IN  s.b.rounds_since_bw_probe >= rounds

BBRHasElapsedInPhase(b, interval, current_time) ==
    current_time > b.cycle_stamp + interval

\* Variant of BBRRaiseInflightHiSlope that counts the rounds of the probe
\* without the cap of BBRProbeUpRoundsMax.
BBRRaiseInflightHiSlope_Uncapped(s) ==
    LET growth_this_round == Mul64(s.p.send_mtu, 2^s.b.bw_probe_up_rounds)
        up_cnt == s.p.cwin \div growth_this_round
    IN  [s EXCEPT
           !.b.bw_probe_up_rounds = s.b.bw_probe_up_rounds + 1,
           !.b.bw_probe_up_cnt = IF up_cnt > 1 THEN up_cnt ELSE 1]

BBRRaiseInflightHiSlope(s) ==
    LET growth_this_round == Mul64(s.p.send_mtu, 2^s.b.bw_probe_up_rounds)
        up_cnt == s.p.cwin \div growth_this_round
    IN  [s EXCEPT
           !.b.bw_probe_up_rounds =
               IF s.b.bw_probe_up_rounds + 1 < BBRProbeUpRoundsMax
               THEN s.b.bw_probe_up_rounds + 1
               ELSE BBRProbeUpRoundsMax,
           !.b.bw_probe_up_cnt = IF up_cnt > 1 THEN up_cnt ELSE 1]

BBRStartProbeBW_DOWN(s, current_time) ==
    LET Enter(s1) == [s1 EXCEPT !.b.state = "probe_bw_down"]
        Stamp(b1) == [s EXCEPT !.b = [b1 EXCEPT
                                        !.cycle_stamp = current_time,
                                        !.ack_phase = "probe_stopping"]]
    IN  Enter(BBRStartRound(Stamp(BBRPickProbeWait(
                 [BBRResetCongestionSignals(
                     [s.b EXCEPT
                        !.pacing_gain = BBRProbeBwDownPacingGain,
                        !.cwnd_gain = BBRProbeBwDownCwndGain])
                  EXCEPT !.bw_probe_up_cnt = UINT32_MAX]))))

BBRStartProbeBW_CRUISE(b) ==
    [b EXCEPT !.pacing_gain = BBRProbeBwCruisePacingGain,
              !.cwnd_gain = BBRProbeBwCruiseCwndGain,
              !.state = "probe_bw_cruise"]

BBRStartProbeBW_REFILL(s) ==
    LET b1 == BBRResetLowerBounds(
                 [s.b EXCEPT !.pacing_gain = BBRProbeBwRefillPacingGain,
                             !.cwnd_gain = BBRProbeBwRefillCwndGain])
        s1 == BBRStartRound(
                 [s EXCEPT !.b = [b1 EXCEPT !.bw_probe_up_rounds = 0,
                                            !.bw_probe_up_acks = 0,
                                            !.ack_phase = "refilling"]])
    IN  [s1 EXCEPT !.b.state = "probe_bw_refill"]

\* Variant of BBRStartProbeBW_UP that keeps the cycle stamp of the last
\* ProbeBW_DOWN.
BBRStartProbeBW_UP_KeepsCycleStamp(s, current_time) ==
    LET s1 == BBRStartRound(
                 [s EXCEPT !.b.pacing_gain = BBRProbeBwUpPacingGain,
                           !.b.cwnd_gain = BBRProbeBwUpCwndGain,
                           !.b.ack_phase = "probe_starting"])
    IN  BBRRaiseInflightHiSlope([s1 EXCEPT !.b.state = "probe_bw_up"])

BBRStartProbeBW_UP(s, current_time) ==
    LET s1 == BBRStartRound(
                 [s EXCEPT !.b.pacing_gain = BBRProbeBwUpPacingGain,
                           !.b.cwnd_gain = BBRProbeBwUpCwndGain,
                           !.b.ack_phase = "probe_starting"])
    IN  BBRRaiseInflightHiSlope(
            [s1 EXCEPT !.b.cycle_stamp = current_time,
                       !.b.state = "probe_bw_up"])

BBREnterProbeBW(s, current_time) ==
    BBRStartProbeBW_DOWN(s, current_time)


(***************************************************************************)
(* ProbeBW: upper bounds and the cycle state machine                        *)
(***************************************************************************)
IsInflightTooHigh(p, rs) ==
    rs.lost > MulDiv(BBRLossThresh, rs.tx_in_flight, 100)

\* The end of BBRHandleInflightTooHigh, once the bounds are cut: a probe
\* that was going up turns down.
BBRHandleInflightTooHigh_Turn(s1, current_time) ==
    IF s1.b.state = "probe_bw_up"
    THEN BBRStartProbeBW_DOWN(s1, current_time)
    ELSE s1

\* Variant of BBRHandleInflightTooHigh that takes tx_in_flight as the new
\* inflight_hi without the BBRBeta floor.
BBRHandleInflightTooHigh_NoBetaFloor(s, rs, current_time) ==
    BBRHandleInflightTooHigh_Turn(
        [s EXCEPT
           !.b.bw_probe_samples = 0,
           !.b.inflight_hi =
               IF ~rs.is_app_limited
               THEN rs.tx_in_flight
               ELSE s.b.inflight_hi],
        current_time)

BBRHandleInflightTooHigh(s, rs, current_time) ==
    BBRHandleInflightTooHigh_Turn(
        [s EXCEPT
           !.b.bw_probe_samples = 0,
           !.b.inflight_hi =
               IF ~rs.is_app_limited
               THEN Max(rs.tx_in_flight, BetaMul(BBRTargetInflight(s)))
               ELSE s.b.inflight_hi],
        current_time)

\* Variant of CheckInflightTooHigh that reacts to every sample above the
\* loss threshold, whether or not a bandwidth probe sample is pending.
CheckInflightTooHigh_EverySample(s, rs, current_time) ==
    IF IsInflightTooHigh(s.p, rs)
    THEN [ret |-> TRUE,
          s |-> BBRHandleInflightTooHigh(s, rs, current_time)]
    ELSE [ret |-> FALSE, s |-> s]

CheckInflightTooHigh(s, rs, current_time) ==
    IF IsInflightTooHigh(s.p, rs)
    THEN [ret |-> TRUE,
          s |-> IF s.b.bw_probe_samples # 0
                THEN BBRHandleInflightTooHigh(s, rs, current_time)
                ELSE s]
    ELSE [ret |-> FALSE, s |-> s]

BBRProbeInflightHiUpward(s, rs) ==
    LET Slope(s1) == IF s1.b.round_start THEN BBRRaiseInflightHiSlope(s1)
                     ELSE s1
    IN  IF ~rs.is_cwnd_limited \/ s.p.cwin < s.b.inflight_hi THEN s
        ELSE LET acks == s.b.bw_probe_up_acks + rs.newly_acked
                 grow == acks >= s.b.bw_probe_up_cnt
                 delta == IF grow THEN acks \div s.b.bw_probe_up_cnt ELSE 0
             IN  Slope([s EXCEPT
                          !.b.bw_probe_up_acks =
                              acks - delta * s.b.bw_probe_up_cnt,
                          !.b.inflight_hi = s.b.inflight_hi + delta])

BBRAdaptUpperBounds(s, rs, current_time) ==
    LET Advance(b1) ==
            IF b1.ack_phase = "probe_stopping" /\ b1.round_start
               /\ IsInAProbeBWState(b1) /\ ~rs.is_app_limited
            THEN BBRAdvanceMaxBwFilter(b1)
            ELSE b1
        Probe(s3) == IF s3.b.state = "probe_bw_up"
                     THEN BBRProbeInflightHiUpward(s3, rs)
                     ELSE s3
        Raise(c) ==
            IF c.ret THEN c.s
            ELSE IF c.s.b.inflight_hi = UINT64_MAX
                    \/ c.s.b.bw_hi = UINT64_MAX
                 THEN c.s
                 ELSE Probe([c.s EXCEPT
                               !.b.inflight_hi =
                                   Max(rs.tx_in_flight, c.s.b.inflight_hi),
                               !.b.bw_hi =
                                   Max(rs.delivery_rate, c.s.b.bw_hi)])
    IN  Raise(CheckInflightTooHigh(
                  [s EXCEPT !.b =
                      Advance(IF s.b.ack_phase = "probe_starting"
                                 /\ s.b.round_start
                              THEN [s.b EXCEPT
                                      !.ack_phase = "probe_feedback"]
                              ELSE s.b)],
                  rs, current_time))

BBRCheckTimeToCruise(s) ==
    LET Fits(i) == [ret |-> s.p.bytes_in_transit <= i.ret, s |-> i.s]
    IN  IF s.p.bytes_in_transit > BBRInflightWithHeadroom(s)
        THEN [ret |-> FALSE, s |-> s]
        ELSE Fits(BBRInflightWithBw(s, GainOne, s.b.max_bw))

\* Variant of BBRCheckTimeToProbeBW that never looks at the wall clock.
BBRCheckTimeToProbeBW_NoTimer(s, current_time) ==
    IF BBRIsRenoCoexistenceProbeTime(s)
    THEN [ret |-> TRUE, s |-> BBRStartProbeBW_REFILL(s)]
    ELSE [ret |-> FALSE, s |-> s]

BBRCheckTimeToProbeBW(s, current_time) ==
    IF BBRHasElapsedInPhase(s.b, s.b.bw_probe_wait, current_time)
       \/ BBRIsRenoCoexistenceProbeTime(s)
    THEN [ret |-> TRUE, s |-> BBRStartProbeBW_REFILL(s)]
    ELSE [ret |-> FALSE, s |-> s]

\* The ProbeBW_DOWN case of BBRUpdateProbeBWCyclePhase, given the answer c
\* of BBRCheckTimeToProbeBW.
BBRUpdateProbeBWCyclePhase_Down(c) ==
    LET Cruise(k) == IF k.ret
                     THEN [k.s EXCEPT !.b = BBRStartProbeBW_CRUISE(k.s.b)]
                     ELSE k.s
    IN  IF c.ret THEN c.s ELSE Cruise(BBRCheckTimeToCruise(c.s))

\* The ProbeBW_UP case of BBRUpdateProbeBWCyclePhase once the phase lasted
\* min_rtt, given the inflight i computed with the gain 1.25.
\* Variant of the ProbeBW_UP case that ends the probe on the clock alone.
BBRUpdateProbeBWCyclePhase_Up_ClockOnly(s1, i, current_time) ==
    BBRStartProbeBW_DOWN(i.s, current_time)

BBRUpdateProbeBWCyclePhase_Up(s1, i, current_time) ==
    IF s1.p.bytes_in_transit > i.ret
    THEN BBRStartProbeBW_DOWN(i.s, current_time)
    ELSE i.s

\* The switch of BBRUpdateProbeBWCyclePhase, after BBRAdaptUpperBounds.
BBRUpdateProbeBWCyclePhase_Switch(s1, current_time) ==
    CASE s1.b.state = "probe_bw_down" ->
           BBRUpdateProbeBWCyclePhase_Down(
               BBRCheckTimeToProbeBW(s1, current_time))
      [] s1.b.state = "probe_bw_cruise" ->
           BBRCheckTimeToProbeBW(s1, current_time).s
      [] s1.b.state = "probe_bw_refill" ->
           IF s1.b.round_start
           THEN BBRStartProbeBW_UP([s1 EXCEPT !.b.bw_probe_samples = 1],
                                   current_time)
           ELSE s1
      [] s1.b.state = "probe_bw_up" ->
           IF BBRHasElapsedInPhase(s1.b, s1.b.min_rtt, current_time)
           THEN BBRUpdateProbeBWCyclePhase_Up(
                    s1, BBRInflightWithBw(s1, GainUpExit, s1.b.max_bw),
                    current_time)
           ELSE s1
      [] OTHER -> s1

BBRUpdateProbeBWCyclePhase(s, rs, current_time) ==
    IF ~s.b.filled_pipe THEN s
    ELSE BBRUpdateProbeBWCyclePhase_Switch(
             BBRAdaptUpperBounds(s, rs, current_time), current_time)

(***************************************************************************)
(* Drain and Startup                                                       *)
(***************************************************************************)
BBREnterDrain(s) ==
    [s EXCEPT !.p.is_ssthresh_initialized = TRUE,
              !.b.state = "drain",
              !.b.pacing_gain = (100 * 100) \div BBRStartupCwndGain,
              !.b.cwnd_gain = BBRStartupCwndGain,
              !.b.cycle_count = s.b.cycle_count + 1]

\* The test of BBRCheckDrain, given the inflight i computed with gain 1.0.
BBRCheckDrain_Leave(s, i, current_time) ==
    IF s.p.bytes_in_transit <= i.ret
    THEN BBREnterProbeBW(i.s, current_time)
    ELSE i.s

BBRCheckDrain(s, current_time) ==
    IF s.b.state = "drain"
    THEN BBRCheckDrain_Leave(s, BBRInflight(s, GainOne), current_time)
    ELSE s

BBRCheckStartupHighLoss(s, rs) ==
    IF IsInflightTooHigh(s.p, rs)
    THEN [s EXCEPT !.b.filled_pipe = TRUE]
    ELSE s

\* min_rtt + delay_cap in 64-bit arithmetic: an unset (all-ones) min_rtt
\* wraps the sum to delay_cap - 1.
Add64(a, b) ==
    IF a = UINT64_MAX THEN (IF b = 0 THEN UINT64_MAX ELSE b - 1)
    ELSE IF b = UINT64_MAX THEN (IF a = 0 THEN UINT64_MAX ELSE a - 1)
    ELSE a + b

BBRCheckStartupHighRTT(s, rs) ==
    IF ~s.b.filled_pipe /\ s.b.min_rtt > 0 /\ rs.is_cwnd_limited
    THEN LET delay_cap == (s.b.min_rtt \div 4) + 2 * s.p.rtt_variant
         IN  IF rs.rtt_sample > Add64(s.b.min_rtt, delay_cap)
             THEN [s EXCEPT !.b.filled_pipe = TRUE]
             ELSE s
    ELSE s

\* Variant of BBRCheckStartupFullBandwidth that counts application-limited
\* rounds as well.
BBRCheckStartupFullBandwidth_CountsAppLimited(b, rs) ==
    IF b.filled_pipe \/ ~b.round_start THEN b
    ELSE IF 4 * b.max_bw >= 5 * b.full_bw
         THEN [b EXCEPT !.full_bw = b.max_bw, !.full_bw_count = 0]
         ELSE [b EXCEPT !.full_bw_count = b.full_bw_count + 1,
                        !.filled_pipe = (b.full_bw_count + 1 >= 3)]

BBRCheckStartupFullBandwidth(b, rs) ==
    IF b.filled_pipe \/ ~b.round_start \/ rs.is_app_limited THEN b
    ELSE IF 4 * b.max_bw >= 5 * b.full_bw
         THEN [b EXCEPT !.full_bw = b.max_bw, !.full_bw_count = 0]
         ELSE [b EXCEPT !.full_bw_count = b.full_bw_count + 1,
                        !.filled_pipe = (b.full_bw_count + 1 >= 3)]

\* Variant of BBRCheckStartupDone that enters Drain from any phase once the
\* pipe is filled.
BBRCheckStartupDone_AnyPhase(s, rs, current_time) ==
    LET Done(s2) ==
            IF s2.b.filled_pipe
            THEN BBREnterDrain(
                     IF s2.b.inflight_hi = 0
                     THEN [s2 EXCEPT !.b.inflight_hi = s2.b.bdp]
                     ELSE s2)
            ELSE s2
    IN  Done(BBRCheckStartupHighRTT(
                 BBRCheckStartupHighLoss(
                     [s EXCEPT !.b = BBRCheckStartupFullBandwidth(s.b, rs)],
                     rs),
                 rs))

BBRCheckStartupDone(s, rs, current_time) ==
    LET Done(s2) ==
            IF s2.b.state = "startup" /\ s2.b.filled_pipe
            THEN BBREnterDrain(
                     IF s2.b.inflight_hi = 0
                     THEN [s2 EXCEPT !.b.inflight_hi = s2.b.bdp]
                     ELSE s2)
            ELSE s2
    IN  Done(BBRCheckStartupHighRTT(
                 BBRCheckStartupHighLoss(
                     [s EXCEPT !.b = BBRCheckStartupFullBandwidth(s.b, rs)],
                     rs),
                 rs))


(***************************************************************************)
(* min_rtt and ProbeRTT                                                    *)
(***************************************************************************)
\* (min_rtt * BBRMinRttMarginPercent) * 100 / 1000000, which wraps for an
\* unset min_rtt to a value above every RTT; plus two packet times.
BBRAdaptMinRttMargin(s) ==
    LET margin0 == IF s.b.min_rtt = UINT64_MAX THEN UINT64_MAX
                   ELSE MulDiv(s.b.min_rtt,
                               BBRMinRttMarginPercent * 100, 1000000)
        margin == IF s.b.max_bw > 0 /\ margin0 # UINT64_MAX
                  THEN margin0
                       + MulDiv(2 * s.p.send_mtu, 1000000, s.b.max_bw)
                  ELSE margin0
    IN  [s EXCEPT !.b.min_rtt_margin = margin]

\* Variant of BBRUpdateMinRTT that expires min_rtt after the ProbeRTT
\* interval instead of the min_rtt filter length.
BBRUpdateMinRTT_ShortWindow(s, rs, current_time) ==
    LET Filter(s1) ==
            LET expired == current_time > s1.b.probe_rtt_min_stamp
                                          + BBRProbeRTTInterval
                Sample(b2) ==
                    IF rs.rtt_sample < b2.probe_rtt_min_delay \/ expired
                    THEN [b2 EXCEPT !.probe_rtt_min_delay = rs.rtt_sample,
                                    !.probe_rtt_min_stamp = current_time]
                    ELSE IF rs.rtt_sample
                               < Add64(b2.min_rtt, b2.min_rtt_margin)
                         THEN [b2 EXCEPT
                                 !.probe_rtt_min_stamp = current_time,
                                 !.min_rtt_stamp = current_time]
                         ELSE b2
                Expire(b3) ==
                    IF b3.probe_rtt_min_delay < b3.min_rtt
                       \/ current_time > b3.min_rtt_stamp
                                         + BBRProbeRTTInterval
                    THEN [b3 EXCEPT
                            !.min_rtt = b3.probe_rtt_min_delay,
                            !.min_rtt_stamp = b3.probe_rtt_min_stamp]
                    ELSE b3
            IN  [s1 EXCEPT !.b =
                    Expire(Sample([s1.b EXCEPT
                                     !.probe_rtt_expired = expired]))]
    IN  Filter(BBRAdaptMinRttMargin(s))

BBRUpdateMinRTT(s, rs, current_time) ==
    LET Filter(s1) ==
            LET expired == current_time > s1.b.probe_rtt_min_stamp
                                          + BBRProbeRTTInterval
                Sample(b2) ==
                    IF rs.rtt_sample < b2.probe_rtt_min_delay \/ expired
                    THEN [b2 EXCEPT !.probe_rtt_min_delay = rs.rtt_sample,
                                    !.probe_rtt_min_stamp = current_time]
                    ELSE IF rs.rtt_sample
                               < Add64(b2.min_rtt, b2.min_rtt_margin)
                         THEN [b2 EXCEPT
                                 !.probe_rtt_min_stamp = current_time,
                                 !.min_rtt_stamp = current_time]
                         ELSE b2
                Expire(b3) ==
                    IF b3.probe_rtt_min_delay < b3.min_rtt
                       \/ current_time > b3.min_rtt_stamp
                                         + BBRMinRTTFilterLen
                    THEN [b3 EXCEPT
                            !.min_rtt = b3.probe_rtt_min_delay,
                            !.min_rtt_stamp = b3.probe_rtt_min_stamp]
                    ELSE b3
            IN  [s1 EXCEPT !.b =
                    Expire(Sample([s1.b EXCEPT
                                     !.probe_rtt_expired = expired]))]
    IN  Filter(BBRAdaptMinRttMargin(s))

\* Variant of BBRExitProbeRTT that starts the full-pipe estimation afresh.
BBRExitProbeRTT_ClearsFilledPipe(s, current_time) ==
    [s EXCEPT !.b = BBREnterStartup(
                        BBRInitFullPipe(BBRResetLowerBounds(s.b)))]

\* Variant of BBRExitProbeRTT that always goes back to Startup.
BBRExitProbeRTT_ToStartup(s, current_time) ==
    [s EXCEPT !.b = BBREnterStartup(BBRResetLowerBounds(s.b))]

BBRExitProbeRTT(s, current_time) ==
    LET Cruise(s2) == [s2 EXCEPT !.b = BBRStartProbeBW_CRUISE(s2.b)]
    IN  IF s.b.filled_pipe
        THEN Cruise(BBRStartProbeBW_DOWN(
                        [s EXCEPT !.b = BBRResetLowerBounds(s.b)],
                        current_time))
        ELSE [s EXCEPT !.b = BBREnterStartup(BBRResetLowerBounds(s.b))]

\* Variant of BBRCheckProbeRTTDone that does not wait for
\* probe_rtt_done_stamp to pass.
BBRCheckProbeRTTDone_NoWait(s, current_time) ==
    IF s.b.probe_rtt_done_stamp # 0
    THEN BBRExitProbeRTT(
             [s EXCEPT !.b.probe_rtt_min_stamp = current_time,
                       !.p.cwin = BBRRestoreCwnd(s)],
             current_time)
    ELSE s

BBRCheckProbeRTTDone(s, current_time) ==
    IF s.b.probe_rtt_done_stamp # 0
       /\ current_time > s.b.probe_rtt_done_stamp
    THEN BBRExitProbeRTT(
             [s EXCEPT !.b.probe_rtt_min_stamp = current_time,
                       !.p.cwin = BBRRestoreCwnd(s)],
             current_time)
    ELSE s

\* The end of BBRHandleProbeRTT, once probe_rtt_round_done is updated.
BBRHandleProbeRTT_RoundDone(s1, current_time) ==
    IF s1.b.probe_rtt_round_done
    THEN BBRCheckProbeRTTDone(s1, current_time)
    ELSE s1

BBRHandleProbeRTT(s, rs, current_time) ==
    LET Start(c) ==
            IF rs.tx_in_flight <= c.ret
            THEN BBRStartRound(
                     [c.s EXCEPT
                        !.b.probe_rtt_done_stamp =
                            current_time + BBRProbeRTTDuration,
                        !.b.probe_rtt_round_done = FALSE])
            ELSE c.s
    IN  IF s.b.probe_rtt_done_stamp = 0
        THEN Start(BBRProbeRTTCwnd(s))
        ELSE BBRHandleProbeRTT_RoundDone(
                 IF s.b.round_start
                 THEN [s EXCEPT !.b.probe_rtt_round_done = TRUE]
                 ELSE s,
                 current_time)

\* Variant of BBREnterProbeRTT that keeps the previous cwnd_gain.
BBREnterProbeRTT_KeepsCwndGain(b) ==
    [b EXCEPT !.state = "probe_rtt",
              !.pacing_gain = BBRProbeRTTPacingGain]

BBREnterProbeRTT(b) ==
    [b EXCEPT !.state = "probe_rtt",
              !.pacing_gain = BBRProbeRTTPacingGain,
              !.cwnd_gain = BBRProbeRTTCwndGain]

\* The second test of BBRCheckProbeRTT, after the entry in ProbeRTT.
BBRCheckProbeRTT_Handle(s1, rs, current_time) ==
    IF s1.b.state = "probe_rtt"
    THEN BBRHandleProbeRTT(s1, rs, current_time)
    ELSE s1

\* Variant of BBRCheckProbeRTT that enters ProbeRTT only from a ProbeBW
\* phase.
BBRCheckProbeRTT_OnlyFromProbeBW(s, rs, current_time) ==
    LET Enter(e) == BBRStartRound(
                        [e EXCEPT
                           !.b.prior_cwnd = BBRSaveCwnd(e),
                           !.b.probe_rtt_done_stamp = 0,
                           !.b.ack_phase = "probe_stopping"])
        Restart(s2) == IF rs.delivered > 0
                       THEN [s2 EXCEPT !.b.idle_restart = FALSE]
                       ELSE s2
    IN  Restart(BBRCheckProbeRTT_Handle(
                    IF IsInAProbeBWState(s.b) /\ s.b.probe_rtt_expired
                       /\ ~s.b.idle_restart
                    THEN Enter([s EXCEPT !.b = BBREnterProbeRTT(s.b)])
                    ELSE s,
                    rs, current_time))

BBRCheckProbeRTT(s, rs, current_time) ==
    LET Enter(e) == BBRStartRound(
                        [e EXCEPT
                           !.b.prior_cwnd = BBRSaveCwnd(e),
                           !.b.probe_rtt_done_stamp = 0,
                           !.b.ack_phase = "probe_stopping"])
        Restart(s2) == IF rs.delivered > 0
                       THEN [s2 EXCEPT !.b.idle_restart = FALSE]
                       ELSE s2
    IN  Restart(BBRCheckProbeRTT_Handle(
                    IF s.b.state # "probe_rtt" /\ s.b.probe_rtt_expired
                       /\ ~s.b.idle_restart
                    THEN Enter([s EXCEPT !.b = BBREnterProbeRTT(s.b)])
                    ELSE s,
                    rs, current_time))

(***************************************************************************)
(* Startup on long-RTT paths, which defers to the HyStart filter            *)
(***************************************************************************)
\* picoquic_min_max_rtt_t keeps the last RttFilterScope samples.
RttFilterScope ==
    7

\* picoquic_hystart_test: records the RTT sample in the filter; whether
\* the delay test fires is the filter's decision, an input here.
picoquic_hystart_test(rtt_filter, rtt_sample, fires) ==
    LET n == rtt_filter.sample_current + 1
    IN  [ret |-> fires,
         f |-> [is_init |-> rtt_filter.is_init \/ n >= RttFilterScope,
                sample_current |-> IF n >= RttFilterScope THEN 0 ELSE n,
                sample_max |-> Max(rtt_filter.sample_max, rtt_sample)]]

\* picoquic_hystart_loss_volume_test: fires only on an ACK that reports
\* newly lost bytes; whether it does is the filter's decision.
picoquic_hystart_loss_volume_test(newly_acked, newly_lost, fires) ==
    newly_lost > 0 /\ fires

\* picoquic_hystart_increase: slow-start growth by the bytes acknowledged.
picoquic_hystart_increase(p, nb_delivered) ==
    [p EXCEPT !.cwin = p.cwin + nb_delivered]

\* Variant of BBREnterStartupLongRTT that does not scale the initial window
\* by the RTT.
BBREnterStartupLongRTT_NoRttScaling(s) ==
    LET cwnd == Max(PICOQUIC_CWIN_INITIAL, s.b.bdp_seed)
    IN  [s EXCEPT !.b.state = "startup_long_rtt",
                  !.p.cwin = Max(cwnd, s.p.cwin)]

BBREnterStartupLongRTT(s) ==
    LET cwnd0 == IF s.p.rtt_min > PICOQUIC_TARGET_RENO_RTT
                 THEN IF s.p.rtt_min > PICOQUIC_TARGET_SATELLITE_RTT
                      THEN MulDiv(PICOQUIC_CWIN_INITIAL,
                                  PICOQUIC_TARGET_SATELLITE_RTT,
                                  PICOQUIC_TARGET_RENO_RTT)
                      ELSE MulDiv(PICOQUIC_CWIN_INITIAL, s.p.rtt_min,
                                  PICOQUIC_TARGET_RENO_RTT)
                 ELSE PICOQUIC_CWIN_INITIAL
        cwnd == Max(cwnd0, s.b.bdp_seed)
    IN  [s EXCEPT !.b.state = "startup_long_rtt",
                  !.p.cwin = Max(cwnd, s.p.cwin)]

\* Variant of BBRExitStartupLongRtt that does not force a round start.
BBRExitStartupLongRtt_NoForcedRound(s, current_time) ==
    LET Filter(b1) ==
            IF (b1.rtt_filter.is_init \/ b1.rtt_filter.sample_current > 0)
               /\ b1.min_rtt > BBRPathologicalMinRtt
               /\ b1.rtt_filter.sample_max < b1.min_rtt
            THEN [b1 EXCEPT !.min_rtt = b1.rtt_filter.sample_max,
                            !.min_rtt_stamp = current_time]
            ELSE b1
        Fill(s1) ==
            [s1 EXCEPT !.b = Filter([s1.b EXCEPT !.filled_pipe = TRUE])]
    IN  BBRCheckDrain(BBREnterDrain(Fill(s)), current_time)

BBRExitStartupLongRtt(s, current_time) ==
    LET Filter(b1) ==
            IF (b1.rtt_filter.is_init \/ b1.rtt_filter.sample_current > 0)
               /\ b1.min_rtt > BBRPathologicalMinRtt
               /\ b1.rtt_filter.sample_max < b1.min_rtt
            THEN [b1 EXCEPT !.min_rtt = b1.rtt_filter.sample_max,
                            !.min_rtt_stamp = current_time]
            ELSE b1
        Round(s1) ==
            [s1 EXCEPT !.b =
                Filter([s1.b EXCEPT
                          !.round_count = s1.b.round_count + 1,
                          !.rounds_since_probe = s1.b.rounds_since_probe + 1,
                          !.round_start = TRUE,
                          !.filled_pipe = TRUE])]
    IN  BBRCheckDrain(BBREnterDrain(Round(BBRStartRound(s))), current_time)

\* The two HyStart tests of BBRCheckStartupLongRtt, given the answer t of
\* picoquic_hystart_test, which also updated the RTT filter.
BBRCheckStartupLongRtt_Decide(s1, t, rs, current_time, hy) ==
    IF t.ret
    THEN BBRExitStartupLongRtt([s1 EXCEPT !.b.rtt_filter = t.f],
                               current_time)
    ELSE IF picoquic_hystart_loss_volume_test(
                rs.newly_acked, rs.newly_lost, hy.loss_test)
         THEN BBRExitStartupLongRtt([s1 EXCEPT !.b.rtt_filter = t.f],
                                    current_time)
         ELSE [s1 EXCEPT !.b.rtt_filter = t.f]

\* BBRCheckStartupLongRtt once the controller is in StartupLongRTT.
BBRCheckStartupLongRtt_Test(s1, rs, current_time, hy) ==
    BBRCheckStartupLongRtt_Decide(
        s1,
        picoquic_hystart_test(s1.b.rtt_filter, rs.rtt_sample, hy.rtt_test),
        rs, current_time, hy)

\* hy = [rtt_test, loss_test]: what the two HyStart tests answer on this ACK
BBRCheckStartupLongRtt(s, rs, current_time, hy) ==
    LET enter == s.b.state = "startup"
                 /\ s.p.rtt_min > PICOQUIC_TARGET_RENO_RTT
    IN  IF ~enter /\ s.b.state # "startup_long_rtt" THEN s
        ELSE BBRCheckStartupLongRtt_Test(
                 IF enter THEN BBREnterStartupLongRTT(s) ELSE s,
                 rs, current_time, hy)

BBRUpdateStartupLongRtt(s, rs) ==
    LET p1 == IF s.p.last_time_acked_data_frame_sent
                 > s.p.last_sender_limited_time
              THEN picoquic_hystart_increase(s.p, rs.newly_acked)
              ELSE s.p
        max_win == Max(MulDiv(s.p.peak_bandwidth_estimate, s.b.min_rtt,
                              1000000),
                       s.b.bdp_seed)
        min_win == max_win \div 2
    IN  [s EXCEPT !.p = [p1 EXCEPT !.cwin = Max(p1.cwin, min_win)]]

BBRSetBdpSeed(b, bdp_seed) ==
    [b EXCEPT !.bdp_seed = bdp_seed]


(***************************************************************************)
(* Per-loss and per-ACK steps                                              *)
(***************************************************************************)
BBRSetRsFromAckState(p, ack_state) ==
    [delivery_rate |->
         IF p.bandwidth_estimate > 0 THEN p.bandwidth_estimate
         ELSE IF ack_state.rtt_measurement > 0
              THEN MulDiv(1000000,
                          ack_state.nb_bytes_delivered_since_packet_sent,
                          ack_state.rtt_measurement)
              ELSE BBRDefaultDeliveryRate,
     delivered |-> ack_state.nb_bytes_delivered_since_packet_sent,
     rtt_sample |-> p.rtt_sample,
     newly_acked |-> ack_state.nb_bytes_acknowledged,
     newly_lost |-> ack_state.nb_bytes_newly_lost,
     lost |-> ack_state.nb_bytes_lost_since_packet_sent,
     tx_in_flight |-> ack_state.inflight_prior,
     is_app_limited |-> ack_state.is_app_limited,
     is_cwnd_limited |-> ack_state.is_cwnd_limited]

BBRInflightHiFromLostPacket(rs, packet_state) ==
    LET packet_size == packet_state.nb_bytes_newly_lost
        inflight_prev == rs.tx_in_flight - packet_size
        lost_prev == rs.lost - packet_size
        lost_prefix == MulDiv(BBRLossThresh, inflight_prev - lost_prev,
                              100 - BBRLossThresh)
    IN  inflight_prev + lost_prefix

\* BBRHandleLostPacket with the rate sample rs of the lost packet.
BBRHandleLostPacket_Sample(s, rs, packet_state, current_time) ==
    IF IsInflightTooHigh(s.p, rs)
    THEN BBRHandleInflightTooHigh(
             s,
             [rs EXCEPT !.tx_in_flight =
                  BBRInflightHiFromLostPacket(rs, packet_state)],
             current_time)
    ELSE s

\* Variant of BBRHandleLostPacket that does not test bw_probe_samples.
BBRHandleLostPacket_NoSampleTest(s, packet_state, current_time) ==
    BBRHandleLostPacket_Sample(
        s, BBRSetRsFromAckState(s.p, packet_state), packet_state,
        current_time)

BBRHandleLostPacket(s, packet_state, current_time) ==
    IF s.b.bw_probe_samples = 0 THEN s
    ELSE BBRHandleLostPacket_Sample(
             s, BBRSetRsFromAckState(s.p, packet_state), packet_state,
             current_time)

BBRUpdateOnLoss(s, packet_state, current_time) ==
    BBRHandleLostPacket(s, packet_state, current_time)

BBRUpdateModelAndState(s, rs, current_time, hy) ==
    LET Advance(s9) ==
            [s9 EXCEPT !.b = BBRBoundBWForModel(
                                 BBRAdvanceLatestDeliverySignals(s9.b, rs))]
    IN  Advance(
         BBRCheckProbeRTT(
          BBRUpdateMinRTT(
           BBRUpdateProbeBWCyclePhase(
            BBRCheckDrain(
             BBRCheckStartupDone(
              BBRCheckStartupLongRtt(
               BBRUpdateACKAggregation(
                BBRUpdateCongestionSignals(
                 BBRUpdateLatestDeliverySignals(s, rs), rs),
                rs, current_time),
               rs, current_time, hy),
              rs, current_time),
             current_time),
            rs, current_time),
           rs, current_time),
          rs, current_time))

BBRUpdateControlParameters(s, rs) ==
    LET b1 == BBRSetPacingRate(s.b)
        b2 == BBRSetSendQuantum(b1, s.p)
    IN  BBRSetCwnd([s EXCEPT !.b = b2], rs)

\* The end of BBRUpdateOnACK, after BBRUpdateModelAndState.
BBRUpdateOnACK_Control(s1, rs) ==
    IF s1.b.state = "startup_long_rtt"
    THEN BBRUpdateStartupLongRtt(s1, rs)
    ELSE BBRUpdateControlParameters(s1, rs)

BBRUpdateOnACK(s, rs, current_time, hy) ==
    BBRUpdateOnACK_Control(
        BBRUpdateModelAndState(s, rs, current_time, hy), rs)

picoquic_bbr_notify_ack(s, ack_state, current_time, hy) ==
    BBRUpdateOnACK(s, BBRSetRsFromAckState(s.p, ack_state),
                   current_time, hy)

(***************************************************************************)
(* The pacer of the transport, as far as the controller drives it          *)
(***************************************************************************)
\* picoquic_update_pacing_rate: the pacer takes the rate and the quantum.
picoquic_update_pacing_rate(p, pacing_rate, quantum) ==
    [p EXCEPT !.pacing_mode = "rate", !.pacing_rate = pacing_rate,
              !.pacing_quantum = quantum,
              !.nb_pacing_updates = @ + 1]

\* picoquic_update_pacing_data(cnx, path, slow_start = 1): the pacer
\* derives its parameters from cwin and the RTT, in slow-start style.
picoquic_update_pacing_data(p) ==
    [p EXCEPT !.pacing_mode = "slow_start", !.nb_pacing_updates = @ + 1]

(***************************************************************************)
(* Public entry points                                                     *)
(***************************************************************************)
picoquic_congestion_notification_t ==
    {"acknowledgement", "repeat", "timeout", "spurious_repeat",
     "rtt_measurement", "ecn_ec", "cwin_blocked", "reset", "seed_cwin"}

\* Variant of picoquic_bbr_notify that reacts to ECN-CE as to a loss.
picoquic_bbr_notify_EcnAsLoss(alloc, s, notification, ack_state, current_time, hy) ==
    LET s0 == [s EXCEPT !.p.is_cc_data_updated = TRUE]
        Publish(s1) ==
            IF s1.b.state = "startup_long_rtt"
            THEN [s1 EXCEPT !.p = picoquic_update_pacing_data(s1.p)]
            ELSE IF s1.b.pacing_rate > 0
                 THEN [s1 EXCEPT !.p =
                          picoquic_update_pacing_rate(
                              s1.p, s1.b.pacing_rate, s1.b.send_quantum)]
                 ELSE s1
    IN  IF alloc = "NULL" THEN s0
        ELSE CASE notification \in {"repeat", "timeout"} ->
                    BBRUpdateOnLoss(s0, ack_state, current_time)
               [] notification = "acknowledgement" ->
                    Publish(picoquic_bbr_notify_ack(s0, ack_state,
                                                    current_time, hy))
               [] notification = "reset" ->
                    picoquic_bbr_reset(s0, current_time)
               [] notification = "seed_cwin" ->
                    [s0 EXCEPT !.b = BBRSetBdpSeed(
                                         s0.b,
                                         ack_state.nb_bytes_acknowledged)]
               [] notification = "ecn_ec" ->
                    [s0 EXCEPT !.b.inflight_lo =
                                  BetaMul(Min(s0.b.inflight_lo, s0.p.cwin)),
                               !.p.cwin = BetaMul(s0.p.cwin)]
               [] OTHER -> s0

\* Variant of picoquic_bbr_notify that also hands the rate to the pacer
\* after a loss notification.
picoquic_bbr_notify_PacerOnLoss(alloc, s, notification, ack_state, current_time, hy) ==
    LET s0 == [s EXCEPT !.p.is_cc_data_updated = TRUE]
        Publish(s1) ==
            IF s1.b.state = "startup_long_rtt"
            THEN [s1 EXCEPT !.p = picoquic_update_pacing_data(s1.p)]
            ELSE IF s1.b.pacing_rate > 0
                 THEN [s1 EXCEPT !.p =
                          picoquic_update_pacing_rate(
                              s1.p, s1.b.pacing_rate, s1.b.send_quantum)]
                 ELSE s1
    IN  IF alloc = "NULL" THEN s0
        ELSE CASE notification \in {"repeat", "timeout"} ->
                    Publish(BBRUpdateOnLoss(s0, ack_state, current_time))
               [] notification = "acknowledgement" ->
                    Publish(picoquic_bbr_notify_ack(s0, ack_state,
                                                    current_time, hy))
               [] notification = "reset" ->
                    picoquic_bbr_reset(s0, current_time)
               [] notification = "seed_cwin" ->
                    [s0 EXCEPT !.b = BBRSetBdpSeed(
                                         s0.b,
                                         ack_state.nb_bytes_acknowledged)]
               [] OTHER -> s0

\* alloc is path_x->congestion_alg_state: "NULL" or "ALLOCATED"
picoquic_bbr_notify(alloc, s, notification, ack_state, current_time, hy) ==
    LET s0 == [s EXCEPT !.p.is_cc_data_updated = TRUE]
        Publish(s1) ==
            IF s1.b.state = "startup_long_rtt"
            THEN [s1 EXCEPT !.p = picoquic_update_pacing_data(s1.p)]
            ELSE IF s1.b.pacing_rate > 0
                 THEN [s1 EXCEPT !.p =
                          picoquic_update_pacing_rate(
                              s1.p, s1.b.pacing_rate, s1.b.send_quantum)]
                 ELSE s1
    IN  IF alloc = "NULL" THEN s0
        ELSE CASE notification \in {"repeat", "timeout"} ->
                    BBRUpdateOnLoss(s0, ack_state, current_time)
               [] notification = "acknowledgement" ->
                    Publish(picoquic_bbr_notify_ack(s0, ack_state,
                                                    current_time, hy))
               [] notification = "reset" ->
                    picoquic_bbr_reset(s0, current_time)
               [] notification = "seed_cwin" ->
                    [s0 EXCEPT !.b = BBRSetBdpSeed(
                                         s0.b,
                                         ack_state.nb_bytes_acknowledged)]
               [] OTHER -> s0

\* picoquic_bbr_init: malloc may fail, which leaves the pointer null.
picoquic_bbr_init(p, current_time, malloc_ok) ==
    IF malloc_ok
    THEN [alloc |-> "ALLOCATED", b |-> BBROnInit(p, current_time)]
    ELSE [alloc |-> "NULL", b |-> BBRStateZero]

picoquic_bbr_delete(alloc) ==
    IF alloc # "NULL" THEN "NULL" ELSE alloc

\* Values a read through a null pointer may yield when it does not trap.
NullReadValues ==
    {<<0, 0>>, <<7, UINT64_MAX>>}

\* picoquic_bbr_observe reads bbr_state->state and bbr_state->btl_bw
\* without testing the pointer: with a null state the read is undefined,
\* it traps or yields arbitrary values.
picoquic_bbr_observe(alloc, b) ==
    IF alloc = "NULL"
    THEN {[fault |-> TRUE, cc_state |-> 0, cc_param |-> 0]}
         \cup {[fault |-> FALSE, cc_state |-> v[1], cc_param |-> v[2]] :
                  v \in NullReadValues}
    ELSE {[fault |-> FALSE, cc_state |-> StateEnumValue(b.state),
           cc_param |-> b.btl_bw]}


(***************************************************************************)
(* The state machine: one controller on one path, driven by the transport  *)
(***************************************************************************)
VARIABLES
    congestion_alg_state,   \* path_x->congestion_alg_state: NULL / ALLOCATED
    bbr_state,              \* picoquic_bbr_state_t
    path_x,                 \* the fields of picoquic_path_t used by bbr.c
    current_time,           \* time of the last event, microseconds
    cc_out,                 \* what the last event returned (Observe only)
    fault,                  \* the process trapped on an undefined read
    last,                   \* the last event, its inputs and the state it
                            \* started from
    ref,                    \* a freshly initialised controller started at
                            \* the Reset and fed the same events afterwards
    nb_acks,
    nb_resets

vars ==
    <<congestion_alg_state, bbr_state, path_x, current_time, cc_out, fault,
      last, ref, nb_acks, nb_resets>>

\* Bounds of the exploration
MaxAcks ==
    3
MaxResets ==
    1
MaxSeedAcks ==
    0

\* The paths the controller is created on: a short path with no RTT
\* sample yet, and a long path (rtt_min above PICOQUIC_TARGET_RENO_RTT)
\* whose handshake already measured the RTT.
InitInputs ==
    {[current_time |-> 1000000, client_mode |-> FALSE, unique_path_id |-> 0,
      send_mtu |-> 1500, smoothed_rtt |-> PICOQUIC_INITIAL_RTT,
      rtt_variant |-> 0, rtt_min |-> 20000],
     [current_time |-> 1000000, client_mode |-> TRUE, unique_path_id |-> 1,
      send_mtu |-> 1500, smoothed_rtt |-> 200000,
      rtt_variant |-> 50000, rtt_min |-> 200000]}

InitialPath(in) ==
    [cwin |-> PICOQUIC_CWIN_INITIAL, send_mtu |-> in.send_mtu,
     bytes_in_transit |-> 0, delivered |-> 0,
     smoothed_rtt |-> in.smoothed_rtt, rtt_variant |-> in.rtt_variant,
     rtt_min |-> in.rtt_min, rtt_sample |-> 0,
     bandwidth_estimate |-> 0, peak_bandwidth_estimate |-> 0,
     last_time_acked_data_frame_sent |-> 0, last_sender_limited_time |-> 0,
     is_ssthresh_initialized |-> FALSE, is_cc_data_updated |-> FALSE,
     client_mode |-> in.client_mode, unique_path_id |-> in.unique_path_id,
     pacing_mode |-> "none", pacing_rate |-> 0, pacing_quantum |-> 0,
     nb_pacing_updates |-> 0]

\* picoquic_per_ack_state_t of a notification that carries none
NoAckState ==
    [rtt_measurement |-> 0, nb_bytes_delivered_since_packet_sent |-> 0,
     nb_bytes_acknowledged |-> 0, nb_bytes_newly_lost |-> 0,
     nb_bytes_lost_since_packet_sent |-> 0, inflight_prior |-> 0,
     is_app_limited |-> FALSE, is_cwnd_limited |-> FALSE]

\* What the transport did to the path since the previous event
NoEnv ==
    [dt |-> 0, bytes_in_transit |-> 0, rtt_excess |-> 0,
     bandwidth_estimate |-> 0, sender_limited |-> FALSE]

AckPacket(acked, newly_lost, lost, inflight, app_limited, cwnd_limited, rtt) ==
    [rtt_measurement |-> rtt,
     nb_bytes_delivered_since_packet_sent |-> acked,
     nb_bytes_acknowledged |-> acked, nb_bytes_newly_lost |-> newly_lost,
     nb_bytes_lost_since_packet_sent |-> lost, inflight_prior |-> inflight,
     is_app_limited |-> app_limited, is_cwnd_limited |-> cwnd_limited]

AckEnv(dt, in_transit, rtt_excess, bw_estimate, sender_limited) ==
    [dt |-> dt, bytes_in_transit |-> in_transit, rtt_excess |-> rtt_excess,
     bandwidth_estimate |-> bw_estimate, sender_limited |-> sender_limited]

\* The acknowledgements the transport may report: a clean ACK with a low
\* queue; a growing-rate ACK behind a deep queue with a late RTT sample;
\* a heavy loss with no rate estimate; an ACK after 5.1 s of silence.
AckInputs ==
    {[env |-> AckEnv(20000, 3000, 0, 1000000, FALSE),
      ack |-> AckPacket(3000, 0, 0, 30000, FALSE, FALSE, 0)],
     [env |-> AckEnv(20000, 60000, 40000, 1300000, FALSE),
      ack |-> AckPacket(3000, 0, 0, 30000, FALSE, TRUE, 0)],
     [env |-> AckEnv(20000, 3000, 0, 0, TRUE),
      ack |-> AckPacket(3000, 1500, 1500, 30000, FALSE, FALSE, 0)],
     [env |-> AckEnv(5100000, 3000, 40000, 1000000, FALSE),
      ack |-> AckPacket(3000, 0, 0, 3000, FALSE, FALSE, 0)]}

\* The lost packets a Repeat or Timeout may report
LossInputs ==
    {AckPacket(0, 1500, 3000, 30000, FALSE, FALSE, 0),
     AckPacket(0, 1500, 1500, 90000, FALSE, FALSE, 0)}

BdpSeeds ==
    {80000}

\* The path as the transport hands it to the controller with an ACK
PathOnAck(p, env, ack_state, t) ==
    [p EXCEPT
       !.delivered = p.delivered + ack_state.nb_bytes_acknowledged,
       !.bytes_in_transit = env.bytes_in_transit,
       !.rtt_sample = p.rtt_min + env.rtt_excess,
       !.bandwidth_estimate = env.bandwidth_estimate,
       !.peak_bandwidth_estimate =
           Max(p.peak_bandwidth_estimate, env.bandwidth_estimate),
       !.last_time_acked_data_frame_sent = t,
       !.last_sender_limited_time = IF env.sender_limited THEN t ELSE 0]

NoHy ==
    [rtt_test |-> FALSE, loss_test |-> FALSE]

\* The answers the HyStart filter may give on this ACK; it is consulted
\* only in (or when entering) StartupLongRTT.
HyOutcomes(ack_state) ==
    IF congestion_alg_state # "NULL"
       /\ (bbr_state.state = "startup_long_rtt"
           \/ (bbr_state.state = "startup"
               /\ path_x.rtt_min > PICOQUIC_TARGET_RENO_RTT))
    THEN {NoHy, [rtt_test |-> TRUE, loss_test |-> FALSE]}
         \cup (IF ack_state.nb_bytes_newly_lost > 0
               THEN {[rtt_test |-> FALSE, loss_test |-> TRUE]}
               ELSE {})
    ELSE {NoHy}

\* Whether BBRCheckStartupLongRtt, reached in state s3, leaves StartupLongRTT
AckExitsStartupLongRtt_At(s3, rs, t, hy) ==
    /\ \/ s3.b.state = "startup_long_rtt"
       \/ (s3.b.state = "startup"
           /\ s3.p.rtt_min > PICOQUIC_TARGET_RENO_RTT)
    /\ BBRCheckStartupLongRtt(s3, rs, t, hy).b.state # "startup_long_rtt"

\* Whether this ACK runs BBRExitStartupLongRtt
AckExitsStartupLongRtt(s, rs, t, hy) ==
    AckExitsStartupLongRtt_At(
        BBRUpdateACKAggregation(
            BBRUpdateCongestionSignals(
                BBRUpdateLatestDeliverySignals(s, rs), rs), rs, t),
        rs, t, hy)

NoOut ==
    [valid |-> FALSE, cc_state |-> 0, cc_param |-> 0]

NoRef ==
    [active |-> FALSE]

Init ==
    \E in \in InitInputs, malloc_ok \in BOOLEAN :
        \E p \in {InitialPath(in)} :
            \E i \in {picoquic_bbr_init(p, in.current_time, malloc_ok)} :
                /\ congestion_alg_state = i.alloc
                /\ bbr_state = i.b
                /\ path_x = p
                /\ current_time = in.current_time
                /\ cc_out = NoOut
                /\ fault = FALSE
                /\ last = [kind |-> "init", prev |-> [b |-> i.b, p |-> p],
                           roundCond |-> FALSE, longRttExit |-> FALSE,
                           afterTimeout |-> FALSE, rtoShrank |-> FALSE,
                           ack |-> NoAckState, env |-> NoEnv]
                /\ ref = NoRef
                /\ nb_acks = 0
                /\ nb_resets = 0

\* One call of picoquic_bbr_notify, after the transport updated the path.
\* With rto set, the transport follows the call with the RTO entry.
NotifyStep(notification, env, ack_state, hy, rto) ==
    LET t == current_time + env.dt
        isAck == notification = "acknowledgement"
        live == congestion_alg_state # "NULL"
        pin(p) == IF isAck THEN PathOnAck(p, env, ack_state, t) ELSE p
        post(s) == IF rto /\ live THEN BBROnEnterRTO(s) ELSE s
        Fresh(rp) == [active |-> TRUE,
                      s |-> [b |-> BBROnInit(rp, t), p |-> rp]]
    IN  /\ ~fault
        /\ \E s0 \in {[b |-> bbr_state, p |-> pin(path_x)]} :
             \E s1 \in {post(picoquic_bbr_notify(
                                 congestion_alg_state, s0, notification,
                                 ack_state, t, hy))} :
                /\ bbr_state' = s1.b
                /\ path_x' = s1.p
                /\ last' =
                     [kind |-> notification,
                      prev |-> [b |-> bbr_state, p |-> path_x],
                      roundCond |-> isAck /\ live
                                    /\ s0.p.delivered
                                           >= s0.b.next_round_delivered,
                      longRttExit |->
                          isAck /\ live
                          /\ AckExitsStartupLongRtt(
                                 [s0 EXCEPT !.p.is_cc_data_updated = TRUE],
                                 BBRSetRsFromAckState(s0.p, ack_state),
                                 t, hy),
                      afterTimeout |-> notification = "spurious_repeat"
                                       /\ last.kind = "timeout",
                      rtoShrank |-> notification = "spurious_repeat"
                                    /\ last.kind = "timeout"
                                    /\ path_x.cwin < last.prev.p.cwin,
                      ack |-> ack_state, env |-> env]
                /\ ref' = IF notification = "reset" /\ live
                          THEN Fresh([s1.p EXCEPT
                                        !.cwin = PICOQUIC_CWIN_INITIAL])
                          ELSE IF ref.active
                               THEN [ref EXCEPT !.s =
                                       post(picoquic_bbr_notify(
                                                "ALLOCATED",
                                                [b |-> ref.s.b,
                                                 p |-> pin(ref.s.p)],
                                                notification, ack_state,
                                                t, hy))]
                               ELSE ref
        /\ current_time' = t
        /\ cc_out' = NoOut
        /\ UNCHANGED <<congestion_alg_state, fault>>

Acknowledgement ==
    /\ nb_acks < MaxAcks
    /\ \E a \in AckInputs :
          \E hy \in HyOutcomes(a.ack) :
              NotifyStep("acknowledgement", a.env, a.ack, hy, FALSE)
    /\ nb_acks' = nb_acks + 1
    /\ UNCHANGED nb_resets

Repeat ==
    /\ \E pk \in LossInputs : NotifyStep("repeat", NoEnv, pk, NoHy, FALSE)
    /\ UNCHANGED <<nb_acks, nb_resets>>

Timeout ==
    /\ \E pk \in LossInputs : NotifyStep("timeout", NoEnv, pk, NoHy, FALSE)
    /\ UNCHANGED <<nb_acks, nb_resets>>

SpuriousRepeat ==
    /\ NotifyStep("spurious_repeat", NoEnv, NoAckState, NoHy, FALSE)
    /\ UNCHANGED <<nb_acks, nb_resets>>

RttMeasurement ==
    /\ NotifyStep("rtt_measurement", NoEnv, NoAckState, NoHy, FALSE)
    /\ UNCHANGED <<nb_acks, nb_resets>>

EcnEc ==
    /\ NotifyStep("ecn_ec", NoEnv, NoAckState, NoHy, FALSE)
    /\ UNCHANGED <<nb_acks, nb_resets>>

CwinBlocked ==
    /\ NotifyStep("cwin_blocked", NoEnv, NoAckState, NoHy, FALSE)
    /\ UNCHANGED <<nb_acks, nb_resets>>

\* A notification value outside the cases of the switch (its default case)
UnknownNotification ==
    /\ NotifyStep("unknown", NoEnv, NoAckState, NoHy, FALSE)
    /\ UNCHANGED <<nb_acks, nb_resets>>

Reset ==
    /\ nb_resets < MaxResets
    /\ NotifyStep("reset", NoEnv, NoAckState, NoHy, FALSE)
    /\ nb_resets' = nb_resets + 1
    /\ UNCHANGED nb_acks

\* The transport seeds the window from a remembered BDP when the path
\* starts, before more than MaxSeedAcks acknowledgements.
SeedCwin ==
    /\ nb_acks <= MaxSeedAcks
    /\ \E seed \in BdpSeeds :
          NotifyStep("seed_cwin", NoEnv,
                     [NoAckState EXCEPT !.nb_bytes_acknowledged = seed],
                     NoHy, FALSE)
    /\ UNCHANGED <<nb_acks, nb_resets>>

Observe ==
    /\ ~fault
    /\ \E o \in picoquic_bbr_observe(congestion_alg_state, bbr_state) :
          /\ fault' = o.fault
          /\ cc_out' = [valid |-> ~o.fault, cc_state |-> o.cc_state,
                        cc_param |-> o.cc_param]
    /\ last' = [kind |-> "observe",
                prev |-> [b |-> bbr_state, p |-> path_x],
                roundCond |-> FALSE, longRttExit |-> FALSE,
                afterTimeout |-> FALSE, rtoShrank |-> FALSE,
                ack |-> NoAckState, env |-> NoEnv]
    /\ UNCHANGED <<congestion_alg_state, bbr_state, path_x, current_time,
                   ref, nb_acks, nb_resets>>

Delete ==
    /\ ~fault
    /\ congestion_alg_state' = picoquic_bbr_delete(congestion_alg_state)
    /\ bbr_state' = BBRStateZero
    /\ cc_out' = NoOut
    /\ ref' = NoRef
    /\ last' = [kind |-> "delete",
                prev |-> [b |-> bbr_state, p |-> path_x],
                roundCond |-> FALSE, longRttExit |-> FALSE,
                afterTimeout |-> FALSE, rtoShrank |-> FALSE,
                ack |-> NoAckState, env |-> NoEnv]
    /\ UNCHANGED <<path_x, current_time, fault, nb_acks, nb_resets>>

Next ==
    \/ Acknowledgement
    \/ Repeat
    \/ Timeout
    \/ SpuriousRepeat
    \/ RttMeasurement
    \/ EcnEc
    \/ CwinBlocked
    \/ UnknownNotification
    \/ Reset
    \/ SeedCwin
    \/ Observe
    \/ Delete

Spec ==
    Init /\ [][Next]_vars

\* The transport's RTO processing as the specification describes it: the
\* Timeout notification, then the RTO entry BBROnEnterRTO on the same path.
TimeoutRTO ==
    /\ congestion_alg_state # "NULL"
    /\ \E pk \in LossInputs : NotifyStep("timeout", NoEnv, pk, NoHy, TRUE)
    /\ UNCHANGED <<nb_acks, nb_resets>>

NextRTO ==
    \/ Acknowledgement
    \/ Timeout
    \/ TimeoutRTO
    \/ SpuriousRepeat

SpecRTO ==
    Init /\ [][NextRTO]_vars

\* A longer train of acknowledgements: a steady rate with an empty or a
\* standing queue, a rate that grew by 30%, application-limited samples
\* below and above the steady rate, a late RTT sample behind a full window,
\* a loss in a short flight, with no rate estimate and an empty queue or
\* at the steady rate with a standing queue, and an application-limited
\* sample with a loss.
MaxTrainAcks ==
    4

TrainInputs ==
    {[env |-> AckEnv(20000, 3000, 0, 1000000, FALSE),
      ack |-> AckPacket(3000, 0, 0, 30000, FALSE, FALSE, 0)],
     [env |-> AckEnv(20000, 60000, 0, 1000000, FALSE),
      ack |-> AckPacket(3000, 0, 0, 30000, FALSE, FALSE, 0)],
     [env |-> AckEnv(20000, 3000, 0, 1300000, FALSE),
      ack |-> AckPacket(3000, 0, 0, 30000, FALSE, FALSE, 0)],
     [env |-> AckEnv(20000, 3000, 0, 800000, TRUE),
      ack |-> AckPacket(3000, 0, 0, 30000, TRUE, FALSE, 0)],
     [env |-> AckEnv(20000, 3000, 0, 2000000, TRUE),
      ack |-> AckPacket(3000, 0, 0, 30000, TRUE, FALSE, 0)],
     [env |-> AckEnv(20000, 60000, 40000, 1000000, FALSE),
      ack |-> AckPacket(3000, 0, 0, 30000, FALSE, TRUE, 0)],
     [env |-> AckEnv(20000, 3000, 0, 0, TRUE),
      ack |-> AckPacket(3000, 1500, 1500, 4500, FALSE, FALSE, 0)],
     [env |-> AckEnv(20000, 60000, 0, 1000000, FALSE),
      ack |-> AckPacket(3000, 1500, 1500, 4500, FALSE, FALSE, 0)],
     [env |-> AckEnv(20000, 60000, 0, 1000000, TRUE),
      ack |-> AckPacket(3000, 1500, 1500, 30000, TRUE, FALSE, 0)]}

AcknowledgementTrain ==
    /\ nb_acks < MaxTrainAcks
    /\ \E a \in TrainInputs :
          \E hy \in HyOutcomes(a.ack) :
              NotifyStep("acknowledgement", a.env, a.ack, hy, FALSE)
    /\ nb_acks' = nb_acks + 1
    /\ UNCHANGED nb_resets

NextTrain ==
    AcknowledgementTrain

SpecTrain ==
    Init /\ [][NextTrain]_vars

\* The ProbeBW cycle under a flow that never stops: every acknowledgement
\* comes 1.1 s after the previous one and acknowledges a full flight, so
\* each one completes the round in progress.  The queue is empty or
\* standing, or the flight was small and the RTT sample is late.  A sender that has been probing up for a whole
\* round has more in flight than 1.25 times the estimated BDP, and a
\* sender in ProbeRTT has drained its flight to the ProbeRTT window.  Weak
\* fairness on the arrival of acknowledgements makes the flow go on for as
\* long as the bound lets it.
MaxCycleAcks ==
    12

CycleInputs ==
    {[env |-> AckEnv(1100000, 3000, 0, 1000000, FALSE),
      ack |-> AckPacket(400000, 0, 0, 30000, FALSE, FALSE, 0)],
     [env |-> AckEnv(1100000, 400000, 0, 1000000, FALSE),
      ack |-> AckPacket(400000, 0, 0, 30000, FALSE, FALSE, 0)],
     [env |-> AckEnv(1100000, 3000, 40000, 1000000, FALSE),
      ack |-> AckPacket(400000, 0, 0, 4500, FALSE, FALSE, 0)]}

ProbedUpForARound ==
    /\ bbr_state.state = "probe_bw_up"
    /\ last.prev.b.state = "probe_bw_up"

AboveProbeUpExit(a) ==
    a.env.bytes_in_transit
        > BBRInflightWithBw([b |-> bbr_state, p |-> path_x], GainUpExit,
                            bbr_state.max_bw).ret

DrainedToProbeRTTCwnd(a) ==
    a.ack.inflight_prior
        <= BBRProbeRTTCwnd([b |-> bbr_state, p |-> path_x]).ret

AcknowledgementCycle ==
    /\ nb_acks < MaxCycleAcks
    /\ \E a \in CycleInputs :
          /\ ProbedUpForARound => AboveProbeUpExit(a)
          /\ bbr_state.state = "probe_rtt" => DrainedToProbeRTTCwnd(a)
          /\ \E hy \in HyOutcomes(a.ack) :
                NotifyStep("acknowledgement", a.env, a.ack, hy, FALSE)
    /\ nb_acks' = nb_acks + 1
    /\ UNCHANGED nb_resets

NextCycle ==
    AcknowledgementCycle

\* An acknowledgement can be processed whenever the bound allows one, and
\* the steps that count one are those of AcknowledgementCycle.
AckArrives ==
    /\ nb_acks < MaxCycleAcks
    /\ nb_acks' = nb_acks + 1

SpecCycle ==
    Init /\ [][NextCycle]_vars /\ WF_nb_acks(AckArrives)

(***************************************************************************)
(* A third environment: acknowledgements with a BDP seed that may arrive    *)
(* at any time, also after the first acknowledgements (the transport seeds  *)
(* the window when the peer's BDP frame arrives).                           *)
(***************************************************************************)
SeedCwinAnyTime ==
    /\ \E seed \in BdpSeeds :
          NotifyStep("seed_cwin", NoEnv,
                     [NoAckState EXCEPT !.nb_bytes_acknowledged = seed],
                     NoHy, FALSE)
    /\ UNCHANGED <<nb_acks, nb_resets>>

NextSeed ==
    \/ Acknowledgement
    \/ SeedCwinAnyTime

SpecSeed ==
    Init /\ [][NextSeed]_vars

(***************************************************************************)
(* A fourth environment: a long bandwidth probe.  Every acknowledgement     *)
(* comes 20 ms after the previous one, acknowledges two packets and         *)
(* completes the round in progress.  Packets are lost until the sender      *)
(* probes up; from then on nothing is lost, the flight stays at two         *)
(* packets, below the level at which ProbeBW_UP ends, and the sender is     *)
(* limited by its window or not.  The controller can be reset while the     *)
(* first acknowledgements arrive, before or during the probe.               *)
(***************************************************************************)
MaxProbeUpAcks ==
    36

MaxResetAcks ==
    4

ProbeUpInputs ==
    {[env |-> AckEnv(20000, 3000, 0, 0, TRUE),
      ack |-> AckPacket(3000, 1500, 1500, 4500, FALSE, FALSE, 0)],
     [env |-> AckEnv(20000, 3000, 0, 1000000, FALSE),
      ack |-> AckPacket(3000, 0, 0, 3000, FALSE, TRUE, 0)],
     [env |-> AckEnv(20000, 3000, 0, 1000000, FALSE),
      ack |-> AckPacket(3000, 0, 0, 3000, FALSE, FALSE, 0)]}

AcknowledgementProbeUp ==
    /\ nb_acks < MaxProbeUpAcks
    /\ \E a \in ProbeUpInputs :
          /\ (a.ack.nb_bytes_newly_lost > 0)
                <=> (bbr_state.state # "probe_bw_up")
          /\ \E hy \in HyOutcomes(a.ack) :
                NotifyStep("acknowledgement", a.env, a.ack, hy, FALSE)
    /\ nb_acks' = nb_acks + 1
    /\ UNCHANGED nb_resets

ResetProbeUp ==
    /\ nb_acks <= MaxResetAcks
    /\ Reset

NextProbeUp ==
    \/ AcknowledgementProbeUp
    \/ ResetProbeUp

SpecProbeUp ==
    Init /\ [][NextProbeUp]_vars

(***************************************************************************)
(* Properties                                                              *)
(***************************************************************************)
Allocated ==
    congestion_alg_state # "NULL"

MinPipeBytes ==
    BBRMinPipeCwnd * path_x.send_mtu

CwinUpperBound ==
    Max(Max(bbr_state.inflight_hi, bbr_state.inflight_lo),
        Max(bbr_state.max_inflight, MinPipeBytes))

\* C1 (as stated): after each notification the congestion window satisfies
\* 4*MSS <= cwin <= max(inflight_hi, inflight_lo, max_inflight, 4*MSS).
C1_CwinBoundedEverywhere ==
    Allocated =>
        /\ MinPipeBytes <= path_x.cwin
        /\ path_x.cwin <= CwinUpperBound

\* C1 (amended): after each notification 4*MSS <= cwin, and outside the
\* StartupLongRTT phase, whose window growth does not go through BBRSetCwnd,
\* cwin <= max(inflight_hi, inflight_lo, max_inflight, 4*MSS).
C1_CwinBounded ==
    Allocated =>
        /\ MinPipeBytes <= path_x.cwin
        /\ bbr_state.state # "startup_long_rtt"
              => path_x.cwin <= CwinUpperBound

\* An acknowledgement outside StartupLongRTT left the window capped at
\* inflight_lo, with every term of the upper bound finite.
C1_Witness ==
    /\ Allocated
    /\ last.kind = "acknowledgement"
    /\ bbr_state.state # "startup_long_rtt"
    /\ CwinUpperBound < UINT32_MAX
    /\ path_x.cwin = bbr_state.inflight_lo

\* C2: bw <= max_bw, bw <= bw_lo whenever bw_lo is set, and bw = max_bw
\* when no bound binds.
C2_BwBounded ==
    Allocated =>
        /\ bbr_state.bw <= bbr_state.max_bw
        /\ bbr_state.bw_lo # UINT64_MAX => bbr_state.bw <= bbr_state.bw_lo
        /\ (/\ bbr_state.bw_lo >= bbr_state.max_bw
            /\ bbr_state.bw_hi = 0 \/ bbr_state.bw_hi >= bbr_state.max_bw)
              => bbr_state.bw = bbr_state.max_bw

\* An acknowledgement left bw held below max_bw by a set bw_lo.
C2_Witness ==
    /\ Allocated
    /\ last.kind = "acknowledgement"
    /\ bbr_state.bw_lo # UINT64_MAX
    /\ bbr_state.bw_lo < bbr_state.max_bw
    /\ bbr_state.bw = bbr_state.bw_lo

\* C3 (as stated): after an Acknowledgement round_start is true if and only
\* if path.delivered >= next_round_delivered held when the round counter
\* processed that ACK.
C3_RoundStartIffDelivered ==
    (Allocated /\ last.kind = "acknowledgement")
        => (bbr_state.round_start <=> last.roundCond)

\* C3 (amended): after an Acknowledgement round_start is true if and only
\* if path.delivered >= next_round_delivered held when the round counter
\* processed that ACK, or that ACK left StartupLongRTT, which forces a
\* round start.
C3_RoundStart ==
    (Allocated /\ last.kind = "acknowledgement")
        => (bbr_state.round_start <=> (last.roundCond \/ last.longRttExit))

\* An acknowledgement that did not reach next_round_delivered and did not
\* leave StartupLongRTT, following one that had started a round.
C3_Witness ==
    /\ Allocated
    /\ last.kind = "acknowledgement"
    /\ ~last.roundCond
    /\ ~last.longRttExit
    /\ last.prev.b.round_start
    /\ ~bbr_state.round_start

PhaseGains(state) ==
    CASE state \in {"startup", "startup_long_rtt"} -> <<277, 200>>
      [] state = "drain"           -> <<50, 200>>
      [] state = "probe_bw_down"   -> <<90, 200>>
      [] state = "probe_bw_cruise" -> <<100, 200>>
      [] state = "probe_bw_refill" -> <<125, 200>>
      [] state = "probe_bw_up"     -> <<125, 200>>
      [] state = "probe_rtt"       -> <<100, 50>>

C5_MinRttMonotone ==
    (/\ Allocated
     /\ last.kind \notin {"init", "reset", "delete"}
     /\ bbr_state.min_rtt > last.prev.b.min_rtt)
        => /\ last.kind = "acknowledgement"
           /\ current_time > last.prev.b.min_rtt_stamp + 10000000

\* An acknowledgement raised min_rtt.
C5_Witness ==
    /\ Allocated
    /\ last.kind = "acknowledgement"
    /\ last.prev.b.min_rtt # UINT64_MAX
    /\ bbr_state.min_rtt > last.prev.b.min_rtt

\* The range [floor, 65536], floor = 1*MSS if pacing_rate < 150000 B/s
\* and 2*MSS otherwise
SendQuantumInRange ==
    /\ bbr_state.send_quantum
          >= (IF bbr_state.pacing_rate < 150000 * PacingScale
              THEN path_x.send_mtu ELSE 2 * path_x.send_mtu)
    /\ bbr_state.send_quantum <= 65536

\* C7 (as stated): after any notification, Init and Reset included,
\* send_quantum lies in [floor, 65536].
C7_SendQuantumAlwaysInRange ==
    Allocated => SendQuantumInRange

\* C7 (amended): after any notification send_quantum is either 0 (Init and
\* Reset zero it, and it is not computed while the controller stays in
\* StartupLongRTT) or lies in [floor, 65536]; after every Acknowledgement
\* that ends outside StartupLongRTT it lies in [floor, 65536].
C7_SendQuantum ==
    Allocated =>
        /\ bbr_state.send_quantum = 0 \/ SendQuantumInRange
        /\ (last.kind = "acknowledgement"
            /\ bbr_state.state # "startup_long_rtt") => SendQuantumInRange

\* An acknowledgement left a pacing rate below 150000 B/s and the quantum
\* at its 1*MSS floor.
C7_Witness ==
    /\ Allocated
    /\ last.kind = "acknowledgement"
    /\ bbr_state.state # "startup_long_rtt"
    /\ bbr_state.pacing_rate < 150000 * PacingScale
    /\ bbr_state.send_quantum = path_x.send_mtu

Outputs(s) ==
    <<s.b.state, s.p.cwin, s.b.pacing_rate, s.b.send_quantum>>

\* C8: after a Reset, the outputs (phase, cwin, pacing_rate, send_quantum)
\* after each step equal those of a controller freshly initialised at the
\* time of the Reset and given the same notifications.
C8_ResetReplay ==
    (Allocated /\ ref.active)
        => Outputs([b |-> bbr_state, p |-> path_x]) = Outputs(ref.s)

C10_NullStateTotal ==
    (~Allocated /\ last.prev.b = BBRStateZero)
        => /\ ~fault
           /\ bbr_state = BBRStateZero
           /\ path_x.cwin = last.prev.p.cwin
           /\ path_x.pacing_mode = last.prev.p.pacing_mode
           /\ path_x.pacing_rate = last.prev.p.pacing_rate
           /\ path_x.pacing_quantum = last.prev.p.pacing_quantum

LostPacketTooHigh ==
    100 * last.ack.nb_bytes_lost_since_packet_sent
        > 2 * last.ack.inflight_prior

C13_ObserveReturns ==
    (Allocated /\ last.kind = "observe")
        => /\ cc_out.valid
           /\ cc_out.cc_state = StateEnumValue(bbr_state.state)
           /\ cc_out.cc_param = bbr_state.bw
           /\ bbr_state = last.prev.b
           /\ path_x = last.prev.p

AckInStartup ==
    /\ Allocated
    /\ last.kind = "acknowledgement"
    /\ last.prev.b.state = "startup"
    /\ last.prev.p.rtt_min <= PICOQUIC_TARGET_RENO_RTT

\* The loss trigger (BBRCheckStartupHighLoss) and the high-RTT trigger
\* (BBRCheckStartupHighRTT) of the ACK that was just processed
StartupLossTrigger ==
    LostPacketTooHigh

StartupRttTrigger ==
    /\ last.ack.is_cwnd_limited
    /\ last.prev.b.min_rtt > 0
    /\ last.prev.p.rtt_min + last.env.rtt_excess
           > Add64(last.prev.b.min_rtt,
                   (last.prev.b.min_rtt \div 4)
                       + 2 * last.prev.p.rtt_variant)

\* The ACK was a non-app-limited round start at which max_bw had not grown
\* by 25% over the baseline full_bw.
StartupNoGrowthRound ==
    /\ bbr_state.round_start
    /\ ~last.ack.is_app_limited
    /\ 4 * bbr_state.max_bw < 5 * last.prev.b.full_bw

\* C15 (the count): in Startup, absent the loss and high-RTT triggers,
\* filled_pipe becomes true exactly on the third non-app-limited round-start
\* ACK in a row with max_bw < 1.25 * full_bw; a non-app-limited round-start
\* ACK with 4*max_bw >= 5*full_bw re-baselines full_bw to max_bw and resets
\* the count to 0; and the ACK that sets filled_pipe leaves Startup with
\* is_ssthresh_initialized set, the phase being Drain with pacing_gain 0.5
\* and cwnd_gain 2.0 unless the same ACK already found the queue drained
\* (bytes_in_transit <= Inflight(1.0)) or the min-RTT sample expired.
C15_StartupFullBandwidth ==
    (AckInStartup /\ ~StartupLossTrigger /\ ~StartupRttTrigger)
        => /\ bbr_state.filled_pipe
                <=> (StartupNoGrowthRound /\ last.prev.b.full_bw_count = 2)
           /\ (bbr_state.round_start /\ ~last.ack.is_app_limited)
                => IF StartupNoGrowthRound
                   THEN /\ bbr_state.full_bw = last.prev.b.full_bw
                        /\ bbr_state.full_bw_count
                               = last.prev.b.full_bw_count + 1
                   ELSE /\ bbr_state.full_bw = bbr_state.max_bw
                        /\ bbr_state.full_bw_count = 0
           /\ ~(bbr_state.round_start /\ ~last.ack.is_app_limited)
                => /\ bbr_state.full_bw = last.prev.b.full_bw
                   /\ bbr_state.full_bw_count = last.prev.b.full_bw_count
           /\ bbr_state.filled_pipe
                => /\ bbr_state.state \notin {"startup", "startup_long_rtt"}
                   /\ path_x.is_ssthresh_initialized
                   /\ bbr_state.state = "drain"
                        => /\ bbr_state.pacing_gain = 50
                           /\ bbr_state.cwnd_gain = 200
                   /\ (path_x.bytes_in_transit
                           > BBRInflight([b |-> bbr_state, p |-> path_x], 100).ret
                       /\ ~bbr_state.probe_rtt_expired)
                        => bbr_state.state = "drain"
           /\ ~bbr_state.filled_pipe => bbr_state.state = "startup"

\* The third round without growth filled the pipe and the controller is in
\* Drain behind a standing queue.
C15_Witness ==
    /\ AckInStartup /\ ~StartupLossTrigger /\ ~StartupRttTrigger
    /\ StartupNoGrowthRound
    /\ last.prev.b.full_bw_count = 2
    /\ bbr_state.filled_pipe
    /\ bbr_state.state = "drain"
    /\ bbr_state.pacing_gain = 50

\* C15 (as stated): after the ACK that sets filled_pipe the phase is Drain
\* with pacing_gain 0.5 and cwnd_gain 2.0.
C15_DrainAfterFilledPipe ==
    (AckInStartup /\ ~StartupLossTrigger /\ ~StartupRttTrigger
     /\ bbr_state.filled_pipe)
        => /\ bbr_state.state = "drain"
           /\ bbr_state.pacing_gain = 50
           /\ bbr_state.cwnd_gain = 200

\* The ACK that was just processed found the controller in Drain.
AckInDrain ==
    /\ Allocated
    /\ last.kind = "acknowledgement"
    /\ last.prev.b.state = "drain"

\* BBRCheckDrain's test on that ACK: bytes_in_transit <= Inflight(1.0)
DrainedQueue ==
    last.env.bytes_in_transit <= BBRInflight(last.prev, 100).ret

ProbeBWStates ==
    {"probe_bw_down", "probe_bw_cruise", "probe_bw_refill", "probe_bw_up"}

\* C16 (as stated): an ACK in Drain with bytes_in_transit <= Inflight(1.0)
\* leaves the controller in ProbeBW_DOWN with cycle_stamp = current time,
\* bw_probe_wait in [2 s, 3 s] and rounds_since_bw_probe in {0, 1}; an ACK
\* in Drain with bytes_in_transit > Inflight(1.0) does not enter ProbeBW.
C16_DrainToProbeBWDown ==
    AckInDrain
        => IF DrainedQueue
           THEN /\ bbr_state.state = "probe_bw_down"
                /\ bbr_state.cycle_stamp = current_time
                /\ bbr_state.bw_probe_wait >= 2000000
                /\ bbr_state.bw_probe_wait <= 3000000
                /\ bbr_state.rounds_since_bw_probe \in {0, 1}
           ELSE bbr_state.state \notin ProbeBWStates

\* C16 (amended): an ACK in Drain with bytes_in_transit <= Inflight(1.0)
\* starts ProbeBW_DOWN (cycle_stamp = current time, bw_probe_wait in
\* [2 s, 3 s], rounds_since_bw_probe in {0, 1}) and then completes the
\* per-ACK pipeline, so that the phase after the ACK is ProbeBW_DOWN,
\* ProbeBW_CRUISE or ProbeRTT; an ACK in Drain with bytes_in_transit >
\* Inflight(1.0) leaves the phase Drain.
C16_DrainExit ==
    AckInDrain
        => IF DrainedQueue
           THEN /\ bbr_state.state
                      \in {"probe_bw_down", "probe_bw_cruise", "probe_rtt"}
                /\ bbr_state.cycle_stamp = current_time
                /\ bbr_state.bw_probe_wait >= 2000000
                /\ bbr_state.bw_probe_wait <= 3000000
                /\ bbr_state.rounds_since_bw_probe \in {0, 1}
           ELSE bbr_state.state = "drain"

\* An ACK found the queue drained and left the controller in ProbeBW_DOWN.
C16_Witness ==
    /\ AckInDrain
    /\ DrainedQueue
    /\ bbr_state.state = "probe_bw_down"
    /\ bbr_state.cycle_stamp = current_time

\* The ACK that was just processed found the controller in ProbeBW_UP with a
\* probe sample pending, and its non-app-limited sample was above the loss
\* threshold.
AckTooHighInProbeUp ==
    /\ Allocated
    /\ last.kind = "acknowledgement"
    /\ last.prev.b.state = "probe_bw_up"
    /\ last.prev.b.bw_probe_samples > 0
    /\ ~last.ack.is_app_limited
    /\ LostPacketTooHigh

\* inflight_hi as BBRHandleInflightTooHigh sets it on that ACK
InflightHiAfterTooHigh ==
    Max(last.ack.inflight_prior,
        BetaMul(Min(last.prev.b.bdp, last.prev.p.cwin)))

\* C17 (as stated): after such an ACK phase = ProbeBW_DOWN,
\* bw_probe_samples = 0 and inflight_hi = max(tx_in_flight,
\* 0.7 * min(bdp, cwin)).
C17_InflightTooHighInProbeUp ==
    AckTooHighInProbeUp
        => /\ bbr_state.state = "probe_bw_down"
           /\ bbr_state.bw_probe_samples = 0
           /\ bbr_state.inflight_hi = InflightHiAfterTooHigh

\* C17 (amended): after such an ACK bw_probe_samples = 0, inflight_hi =
\* max(tx_in_flight, 0.7 * min(bdp, cwin)) and ProbeBW_DOWN has been started
\* at the current time; the phase after the ACK is ProbeBW_DOWN, or
\* ProbeBW_CRUISE or ProbeRTT when the rest of the per-ACK pipeline moved
\* on.
C17_InflightTooHighTurnsDown ==
    AckTooHighInProbeUp
        => /\ bbr_state.state
                 \in {"probe_bw_down", "probe_bw_cruise", "probe_rtt"}
           /\ bbr_state.cycle_stamp = current_time
           /\ bbr_state.bw_probe_samples = 0
           /\ bbr_state.inflight_hi = InflightHiAfterTooHigh

\* A lossy ACK in ProbeBW_UP turned the probe down with inflight_hi at the
\* BBRBeta floor, above the flight of the acknowledged packet.
C17_Witness ==
    /\ AckTooHighInProbeUp
    /\ bbr_state.state = "probe_bw_down"
    /\ bbr_state.inflight_hi > last.ack.inflight_prior
    /\ bbr_state.inflight_hi
           = BetaMul(Min(last.prev.b.bdp, last.prev.p.cwin))

\* The ACK that was just processed ended ProbeRTT.
ProbeRTTEnded ==
    /\ Allocated
    /\ last.kind = "acknowledgement"
    /\ last.prev.b.state = "probe_rtt"
    /\ bbr_state.state # "probe_rtt"

\* The window BBRCheckProbeRTTDone restores on that ACK
RestoredCwnd ==
    Max(last.prev.b.prior_cwnd, last.prev.p.cwin)

AckInStartupOnLongPath ==
    /\ Allocated
    /\ last.kind = "acknowledgement"
    /\ last.prev.b.state = "startup"
    /\ last.prev.p.rtt_min > PICOQUIC_TARGET_RENO_RTT

\* The window the claim gives for the entry into StartupLongRTT
LongRttEntryCwnd ==
    Max(MulDiv(PICOQUIC_CWIN_INITIAL,
               Min(last.prev.p.rtt_min, PICOQUIC_TARGET_SATELLITE_RTT),
               PICOQUIC_TARGET_RENO_RTT),
        last.prev.b.bdp_seed)

\* The window after an ACK that entered StartupLongRTT with window w and
\* stayed there
CwinAfterLongRttEntry(w) ==
    BBRUpdateStartupLongRtt(
        [b |-> bbr_state, p |-> [path_x EXCEPT !.cwin = w]],
        BBRSetRsFromAckState(path_x, last.ack)).p.cwin

AppLimitedAck ==
    /\ Allocated
    /\ last.kind = "acknowledgement"
    /\ last.ack.is_app_limited

\* The delivery rate of that sample
AckDeliveryRate ==
    BBRSetRsFromAckState(path_x, last.ack).delivery_rate

\* The ACK ran BBREnterDrain, which counts a cycle of its own.
AckEnteredDrain ==
    \/ /\ last.prev.b.state = "startup"
       /\ last.prev.p.rtt_min <= PICOQUIC_TARGET_RENO_RTT
       /\ bbr_state.filled_pipe
    \/ last.longRttExit

\* C20: an ACK whose sample is app-limited never lowers max_bw; the sample
\* is fed to the max-bw filter only when its delivery rate is at least the
\* current max_bw, and the ACK does not rotate the filter: the AckPhase rule
\* of BBRAdaptUpperBounds leaves cycle_count alone.
C20_AppLimitedSample ==
    AppLimitedAck
        => /\ bbr_state.max_bw >= last.prev.b.max_bw
           /\ IF AckDeliveryRate >= last.prev.b.max_bw
              THEN /\ bbr_state.max_bw = AckDeliveryRate
                   /\ bbr_state.MaxBwFilter
                          = update_windowed_max_filter(
                                last.prev.b.MaxBwFilter, AckDeliveryRate,
                                last.prev.b.cycle_count,
                                BBRMaxBwFilterLen)[1]
              ELSE /\ bbr_state.max_bw = last.prev.b.max_bw
                   /\ bbr_state.MaxBwFilter = last.prev.b.MaxBwFilter
           /\ bbr_state.cycle_count
                  = last.prev.b.cycle_count
                        + (IF AckEnteredDrain THEN 1 ELSE 0)

\* An app-limited sample below max_bw arrived at a round start in ProbeBW
\* with the probe stopping, where a sample that is not app-limited rotates
\* the filter.
C20_Witness ==
    /\ AppLimitedAck
    /\ AckDeliveryRate < last.prev.b.max_bw
    /\ last.prev.b.state \in ProbeBWStates
    /\ last.prev.b.ack_phase = "probe_stopping"
    /\ bbr_state.round_start
    /\ bbr_state.max_bw = last.prev.b.max_bw
    /\ bbr_state.cycle_count = last.prev.b.cycle_count

\* C21: filled_pipe is latched: once true it stays true under every
\* notification except Reset, and it is false after Init and after Reset.
C21_FilledPipeLatched ==
    Allocated
        => /\ (last.prev.b.filled_pipe
               /\ last.kind \in (picoquic_congestion_notification_t
                                    \cup {"unknown", "observe"}) \ {"reset"})
                 => bbr_state.filled_pipe
           /\ last.kind \in {"init", "reset"} => ~bbr_state.filled_pipe

\* The pipe was full before ProbeRTT and is still full after the ACK that
\* ended it.
C21_Witness ==
    /\ Allocated
    /\ last.kind = "acknowledgement"
    /\ last.prev.b.filled_pipe
    /\ last.prev.b.state = "probe_rtt"
    /\ bbr_state.state = "probe_bw_cruise"
    /\ bbr_state.filled_pipe

\* C22: an ACK whose sample is app-limited never sets filled_pipe and never
\* moves the phase from Startup to Drain.
C22_AppLimitedStaysInStartup ==
    AppLimitedAck
        => /\ ~last.prev.b.filled_pipe => ~bbr_state.filled_pipe
           /\ last.prev.b.state = "startup" => bbr_state.state # "drain"

\* How many acknowledgements are still to come.
CycleAcksLeft(k) ==
    nb_acks <= MaxCycleAcks - k

AckProcessed ==
    Allocated /\ last.kind = "acknowledgement"

InProbeBWWait ==
    /\ Allocated
    /\ bbr_state.filled_pipe
    /\ bbr_state.state \in {"probe_bw_down", "probe_bw_cruise"}

\* BBRStartProbeBW_REFILL ran on the last acknowledgement: the phase is
\* Refill, or ProbeRTT was entered behind it on the same acknowledgement.
StartedProbeBWRefill ==
    \/ bbr_state.state = "probe_bw_refill"
    \/ /\ AckProcessed
       /\ bbr_state.state = "probe_rtt"
       /\ last.prev.b.state \in {"probe_bw_down", "probe_bw_cruise"}
       /\ BBRHasElapsedInPhase(last.prev.b, last.prev.b.bw_probe_wait,
                               current_time)

\* BBRStartProbeBW_UP ran on the last acknowledgement.
StartedProbeBWUp ==
    \/ bbr_state.state = "probe_bw_up"
    \/ /\ AckProcessed
       /\ bbr_state.state = "probe_rtt"
       /\ last.prev.b.state = "probe_bw_refill"
       /\ bbr_state.cycle_stamp = current_time

\* BBRStartProbeBW_DOWN ran on the last acknowledgement.
StartedProbeBWDown ==
    /\ AckProcessed
    /\ bbr_state.state # "probe_bw_up"
    /\ bbr_state.cycle_stamp = current_time

\* Acknowledgements that suffice for each leg of the cycle, a ProbeRTT
\* episode included.
RefillWithinAcks ==
    7
UpWithinAcks ==
    1
DownWithinAcks ==
    3

RoundCounterOnAck ==
    BBRUpdateRound([b |-> last.prev.b, p |-> path_x]).b

RoundIndexSlot(b) ==
    b.ExtraACKedFilter[(b.round_count % BBRExtraAckedFilterLen) + 1]

ForcedRounds ==
    IF last.longRttExit THEN 1 ELSE 0

\* C24 (as stated): an ACK with path.delivered >= next_round_delivered adds
\* exactly one to round_count and to rounds_since_probe, sets
\* next_round_delivered to path.delivered + path.bytes_in_transit and has
\* the extra-acked filter slot of the new round zeroed by the round counter;
\* any other ACK leaves round_count and rounds_since_probe unchanged.
C24_RoundCounter ==
    AckProcessed
        => IF last.roundCond
           THEN /\ bbr_state.round_count = last.prev.b.round_count + 1
                /\ bbr_state.rounds_since_probe
                       = last.prev.b.rounds_since_probe + 1
                /\ bbr_state.next_round_delivered
                       = path_x.delivered + path_x.bytes_in_transit
                /\ RoundIndexSlot(RoundCounterOnAck) = 0
           ELSE /\ bbr_state.round_count = last.prev.b.round_count
                /\ bbr_state.rounds_since_probe
                       = last.prev.b.rounds_since_probe

\* C24 (amended): as stated, except that an ACK that leaves StartupLongRTT
\* adds one more to round_count and to rounds_since_probe, whether or not
\* it reached next_round_delivered.
C24_RoundCounterAndForcedRound ==
    AckProcessed
        => /\ bbr_state.round_count
                  = RoundCounterOnAck.round_count + ForcedRounds
           /\ bbr_state.rounds_since_probe
                  = RoundCounterOnAck.rounds_since_probe + ForcedRounds
           /\ IF last.roundCond
              THEN /\ RoundCounterOnAck.round_count
                          = last.prev.b.round_count + 1
                   /\ RoundCounterOnAck.rounds_since_probe
                          = last.prev.b.rounds_since_probe + 1
                   /\ bbr_state.next_round_delivered
                          = path_x.delivered + path_x.bytes_in_transit
                   /\ RoundIndexSlot(RoundCounterOnAck) = 0
              ELSE /\ RoundCounterOnAck.round_count
                          = last.prev.b.round_count
                   /\ RoundCounterOnAck.rounds_since_probe
                          = last.prev.b.rounds_since_probe

\* A second round started by an acknowledgement with bytes still in flight.
C24_Witness ==
    /\ AckProcessed
    /\ last.roundCond
    /\ ~last.longRttExit
    /\ bbr_state.round_count >= 2
    /\ path_x.bytes_in_transit > 0
    /\ bbr_state.next_round_delivered > path_x.delivered

\* The last acknowledgement as BBRUpdateModelAndState takes it, for an
\* acknowledgement that arrived outside Startup and StartupLongRTT (where
\* the HyStart tests play no part).
AckContext ==
    [b |-> last.prev.b,
     p |-> [PathOnAck(last.prev.p, last.env, last.ack, current_time)
               EXCEPT !.is_cc_data_updated = TRUE]]

AckRateSample ==
    BBRSetRsFromAckState(AckContext.p, last.ack)

\* The state in which BBRUpdateProbeBWCyclePhase is called, for the
\* outcome hy of the HyStart tests.
AckBeforeCyclePhaseWith(hy) ==
    BBRCheckDrain(
        BBRCheckStartupDone(
            BBRCheckStartupLongRtt(
                BBRUpdateACKAggregation(
                    BBRUpdateCongestionSignals(
                        BBRUpdateLatestDeliverySignals(AckContext,
                                                       AckRateSample),
                        AckRateSample),
                    AckRateSample, current_time),
                AckRateSample, current_time, hy),
            AckRateSample, current_time),
        current_time)

AckBeforeCyclePhase ==
    AckBeforeCyclePhaseWith(NoHy)

\* The state at the switch of BBRUpdateProbeBWCyclePhase, and behind it.
AckAtCycleSwitch ==
    BBRAdaptUpperBounds(AckBeforeCyclePhase, AckRateSample, current_time)

AckAfterCycleSwitch ==
    BBRUpdateProbeBWCyclePhase_Switch(AckAtCycleSwitch, current_time)

AckOutsideStartup ==
    /\ AckProcessed
    /\ ~(last.prev.b.state \in {"startup", "startup_long_rtt"})

AckInProbeBWWait ==
    /\ AckOutsideStartup
    /\ last.prev.b.filled_pipe
    /\ last.prev.b.state \in {"probe_bw_down", "probe_bw_cruise"}
    /\ AckAtCycleSwitch.b.state = last.prev.b.state

ProbeWaitElapsed ==
    current_time > AckAtCycleSwitch.b.cycle_stamp
                   + AckAtCycleSwitch.b.bw_probe_wait

RenoRoundsInMSS ==
    Min(BBRTargetInflight(AckAtCycleSwitch)
            \div AckAtCycleSwitch.p.send_mtu,
        BBRRenoRoundsMax)

FitsToCruise ==
    /\ AckAtCycleSwitch.p.bytes_in_transit
           <= BBRInflightWithHeadroom(AckAtCycleSwitch)
    /\ AckAtCycleSwitch.p.bytes_in_transit
           <= BBRInflightWithBw(AckAtCycleSwitch, GainOne,
                                AckAtCycleSwitch.b.max_bw).ret

\* C25: on an ACK in ProbeBW_Down or ProbeBW_Cruise the controller moves to
\* ProbeBW_Refill if and only if the probe wait has elapsed since
\* cycle_stamp or rounds_since_bw_probe has reached min(TargetInflight in
\* MSS, 63); otherwise, from Down, it moves to Cruise if and only if
\* bytes_in_transit fits under the headroom of inflight_hi and under
\* Inflight(1.0, max_bw).
C25_LeaveDownOrCruise ==
    AckInProbeBWWait
        => /\ (AckAfterCycleSwitch.b.state = "probe_bw_refill")
                  <=> (\/ ProbeWaitElapsed
                       \/ AckAtCycleSwitch.b.rounds_since_bw_probe
                              >= RenoRoundsInMSS)
           /\ (last.prev.b.state = "probe_bw_down"
               /\ AckAfterCycleSwitch.b.state # "probe_bw_refill")
                  => ((AckAfterCycleSwitch.b.state = "probe_bw_cruise")
                          <=> FitsToCruise)

EnteredProbeBWUp ==
    /\ Allocated
    /\ last.kind # "init"
    /\ bbr_state.state = "probe_bw_up"
    /\ last.prev.b.state # "probe_bw_up"

AckInRefill ==
    /\ AckProcessed
    /\ last.prev.b.state = "probe_bw_refill"

\* C26: ProbeBW_Up is entered only from ProbeBW_Refill and only on an ACK
\* that starts a round; the transition leaves bw_probe_samples = 1,
\* AckPhase = ProbeStarting and cycle_stamp = current_time.  An ACK in
\* Refill that does not start a round leaves the phase Refill, unless
\* ProbeRTT is entered.
C26_RefillToProbeUp ==
    /\ EnteredProbeBWUp
           => /\ AckInRefill
              /\ last.roundCond
              /\ bbr_state.round_start
              /\ bbr_state.bw_probe_samples = 1
              /\ bbr_state.ack_phase = "probe_starting"
              /\ bbr_state.cycle_stamp = current_time
    /\ (AckInRefill /\ ~bbr_state.round_start)
           => bbr_state.state \in {"probe_bw_refill", "probe_rtt"}

\* ProbeBW_Up entered a while after the cycle stamp of ProbeBW_Down.
C26_Witness ==
    /\ EnteredProbeBWUp
    /\ AckInRefill
    /\ last.prev.b.cycle_stamp < current_time
    /\ last.prev.b.bw_probe_samples = 0

\* An ACK that reaches the switch of BBRUpdateProbeBWCyclePhase in
\* ProbeBW_Up: no reaction to a too high inflight has ended the probe.
AckInProbeUp ==
    /\ AckOutsideStartup
    /\ last.prev.b.state = "probe_bw_up"
    /\ AckAtCycleSwitch.b.state = "probe_bw_up"

ProbeUpElapsed ==
    BBRHasElapsedInPhase(AckAtCycleSwitch.b, AckAtCycleSwitch.b.min_rtt,
                         current_time)

ProbeUpInflightReached ==
    AckAtCycleSwitch.p.bytes_in_transit
        > BBRInflightWithBw(AckAtCycleSwitch, GainUpExit,
                            AckAtCycleSwitch.b.max_bw).ret

ProbeWaitPicked ==
    BBRPickProbeWait(AckAtCycleSwitch.b)

\* C27: absent a reaction to a too high inflight, an ACK in ProbeBW_Up moves
\* the controller to ProbeBW_Down if and only if min_rtt has elapsed since
\* cycle_stamp and bytes_in_transit > Inflight(1.25, max_bw); the
\* transition picks a new probe wait, sets cycle_stamp = current_time,
\* resets the congestion signals and sets AckPhase = ProbeStopping.  (The
\* same ACK may go on to ProbeRTT.)
C27_ProbeUpToDown ==
    AckInProbeUp
        => IF ProbeUpElapsed /\ ProbeUpInflightReached
           THEN /\ bbr_state.state \in {"probe_bw_down", "probe_rtt"}
                /\ bbr_state.bw_probe_wait = ProbeWaitPicked.bw_probe_wait
                /\ bbr_state.rounds_since_bw_probe
                       = ProbeWaitPicked.rounds_since_bw_probe
                /\ bbr_state.random_context = ProbeWaitPicked.random_context
                /\ bbr_state.cycle_stamp = current_time
                /\ ~bbr_state.loss_in_round
                /\ bbr_state.bw_latest
                       \in {0, AckRateSample.delivery_rate}
                /\ bbr_state.inflight_latest
                       \in {0, AckRateSample.delivered}
                /\ bbr_state.ack_phase = "probe_stopping"
           ELSE /\ bbr_state.state \in {"probe_bw_up", "probe_rtt"}
                /\ bbr_state.bw_probe_wait = last.prev.b.bw_probe_wait
                /\ bbr_state.cycle_stamp = last.prev.b.cycle_stamp

\* ProbeBW_Up left for ProbeBW_Down with a new wait and a new stamp.
C27_Witness ==
    /\ AckInProbeUp
    /\ ProbeUpElapsed
    /\ ProbeUpInflightReached
    /\ bbr_state.state = "probe_bw_down"
    /\ bbr_state.bw_probe_wait # last.prev.b.bw_probe_wait
    /\ bbr_state.cycle_stamp > last.prev.b.cycle_stamp

AckOutsideProbeRTT ==
    /\ AckProcessed
    /\ last.prev.b.state # "probe_rtt"

\* The expiry test of BBRUpdateMinRTT on the stamp stored before the ACK.
ProbeRTTExpiredBefore ==
    current_time > last.prev.b.probe_rtt_min_stamp + BBRProbeRTTInterval

HyTestResults ==
    {NoHy, [rtt_test |-> TRUE, loss_test |-> FALSE],
     [rtt_test |-> FALSE, loss_test |-> TRUE]}

\* The state in which BBRCheckProbeRTT is called.
AckBeforeProbeRTTCheck(hy) ==
    BBRUpdateMinRTT(
        BBRUpdateProbeBWCyclePhase(AckBeforeCyclePhaseWith(hy),
                                   AckRateSample, current_time),
        AckRateSample, current_time)

\* What BBRSaveCwnd stores once BBREnterProbeRTT has set the phase.
SavedCwndOnProbeRTTEntry ==
    {Max(m.b.prior_cwnd, m.p.cwin) :
        m \in {AckBeforeProbeRTTCheck(hy) : hy \in HyTestResults}}

\* C28: an ACK processed in any phase other than ProbeRTT, with idle_restart
\* false and current_time > probe_rtt_min_stamp + 5 000 000 us for the
\* stamp stored before the ACK, ends in ProbeRTT with prior_cwnd saved and
\* AckPhase = ProbeStopping; an ACK for which that test is false does not
\* enter ProbeRTT.
C28_ProbeRTTEntry ==
    AckOutsideProbeRTT
        => IF ProbeRTTExpiredBefore /\ ~last.prev.b.idle_restart
           THEN /\ bbr_state.state = "probe_rtt"
                /\ bbr_state.ack_phase = "probe_stopping"
                /\ bbr_state.prior_cwnd \in SavedCwndOnProbeRTTEntry
           ELSE bbr_state.state # "probe_rtt"

\* ProbeRTT entered from Startup or StartupLongRTT.
C28_Witness ==
    /\ AckOutsideProbeRTT
    /\ ProbeRTTExpiredBefore
    /\ last.prev.b.state \in {"startup", "startup_long_rtt"}
    /\ bbr_state.state = "probe_rtt"
    /\ bbr_state.prior_cwnd >= last.prev.p.cwin

AckLeftInProbeRTT ==
    /\ AckProcessed
    /\ bbr_state.state = "probe_rtt"

\* max(0.5 * bw * min_rtt / 1e6, 4 * MSS)
ProbeRTTCwndOfModel ==
    Max(GainMul(BBRProbeRTTCwndGain,
                MulDiv(bbr_state.bw, bbr_state.min_rtt, 1000000)),
        MinPipeBytes)

\* C29: after every ACK that leaves the controller in ProbeRTT,
\* 4*MSS <= cwin <= max(0.5 * bw * min_rtt / 1e6, 4*MSS).
C29_ProbeRTTCwnd ==
    AckLeftInProbeRTT
        => /\ path_x.cwin <= ProbeRTTCwndOfModel
           /\ path_x.cwin >= MinPipeBytes

\* ProbeRTT entered with a window above the ProbeRTT window, which is above
\* the floor of 4 MSS.
C29_Witness ==
    /\ AckLeftInProbeRTT
    /\ last.prev.p.cwin > ProbeRTTCwndOfModel
    /\ ProbeRTTCwndOfModel > MinPipeBytes
    /\ path_x.cwin = ProbeRTTCwndOfModel

\* An ACK whose control parameters were set by BBRUpdateControlParameters.
AckSetCwnd ==
    /\ AckProcessed
    /\ bbr_state.state # "startup_long_rtt"

CapByInflightHi ==
    Max(bbr_state.inflight_hi, MinPipeBytes)

\* max(0.85 * inflight_hi, 4 * MSS)
CapByHeadroom ==
    Max(MulDiv(100 - BBRHeadroom, bbr_state.inflight_hi, 100), MinPipeBytes)

CapByInflightLo ==
    Max(bbr_state.inflight_lo, MinPipeBytes)

\* C30 (as stated): after every ACK processed outside StartupLongRTT,
\* cwin <= max(inflight_hi, 4*MSS) in ProbeBW_Down, Refill and Up,
\* cwin <= max(0.85 * inflight_hi, 4*MSS) in ProbeBW_Cruise and ProbeRTT,
\* and cwin <= max(inflight_lo, 4*MSS) in every phase.
C30_CwinModelCap ==
    AckSetCwnd
        => /\ bbr_state.state \in {"probe_bw_down", "probe_bw_refill",
                                   "probe_bw_up"}
                 => path_x.cwin <= CapByInflightHi
           /\ bbr_state.state \in {"probe_bw_cruise", "probe_rtt"}
                 => path_x.cwin <= CapByHeadroom
           /\ path_x.cwin <= CapByInflightLo

\* C30 (amended): as stated, except that in ProbeBW_Down, Refill and Up the
\* cap of inflight_hi applies only once inflight_hi is set (not 0).
C30_CwinModelCapWhenSet ==
    AckSetCwnd
        => /\ (bbr_state.state \in {"probe_bw_down", "probe_bw_refill",
                                    "probe_bw_up"}
               /\ bbr_state.inflight_hi > 0)
                 => path_x.cwin <= CapByInflightHi
           /\ bbr_state.state \in {"probe_bw_cruise", "probe_rtt"}
                 => path_x.cwin <= CapByHeadroom
           /\ path_x.cwin <= CapByInflightLo

\* A window brought down to inflight_hi, above the floor, in ProbeBW_Down,
\* Refill or Up.
C30_Witness ==
    /\ AckSetCwnd
    /\ bbr_state.state \in {"probe_bw_down", "probe_bw_refill",
                            "probe_bw_up"}
    /\ bbr_state.inflight_hi > MinPipeBytes
    /\ path_x.cwin = bbr_state.inflight_hi
    /\ last.prev.p.cwin + last.ack.nb_bytes_acknowledged
           > bbr_state.inflight_hi

\* The last notification, other than Reset, found the controller allocated.
NotifiedOtherThanReset ==
    /\ Allocated
    /\ ~(last.kind \in {"init", "reset", "observe"})

\* The last notification found the controller in ProbeRTT and left it in
\* another phase.
LeftProbeRTT ==
    /\ NotifiedOtherThanReset
    /\ last.prev.b.state = "probe_rtt"
    /\ bbr_state.state # "probe_rtt"

\* The last notification armed probe_rtt_done_stamp.
ArmedProbeRTTDoneStamp ==
    /\ NotifiedOtherThanReset
    /\ bbr_state.probe_rtt_done_stamp # 0
    /\ bbr_state.probe_rtt_done_stamp # last.prev.b.probe_rtt_done_stamp

\* The last notification set probe_rtt_round_done.
SetProbeRTTRoundDone ==
    /\ NotifiedOtherThanReset
    /\ ~last.prev.b.probe_rtt_round_done
    /\ bbr_state.probe_rtt_round_done

\* rs->tx_in_flight of the last ACK is within the BBRProbeRTTCwnd that
\* BBRHandleProbeRTT computes on it.
DrainedForProbeRTT ==
    \E hy \in HyTestResults :
        AckRateSample.tx_in_flight
            <= BBRProbeRTTCwnd(AckBeforeProbeRTTCheck(hy)).ret

\* C31: ProbeRTT is left (other than by Reset) only on an ACK processed
\* strictly later than the armed probe_rtt_done_stamp and only once a round
\* start was seen since the arming (on that ACK or, as probe_rtt_round_done
\* records, on an earlier one); probe_rtt_done_stamp is armed only on an ACK
\* whose tx_in_flight <= ProbeRTTCwnd, to the time of that ACK + 200 000 us
\* with probe_rtt_round_done cleared; probe_rtt_round_done is set only on an
\* ACK that starts a round in ProbeRTT after the arming; no other
\* notification ends ProbeRTT.
C31_ProbeRTTDone ==
    /\ LeftProbeRTT
          => /\ last.kind = "acknowledgement"
             /\ last.prev.b.probe_rtt_done_stamp # 0
             /\ current_time > last.prev.b.probe_rtt_done_stamp
             /\ last.prev.b.probe_rtt_round_done \/ bbr_state.round_start
    /\ ArmedProbeRTTDoneStamp
          => /\ last.kind = "acknowledgement"
             /\ bbr_state.state = "probe_rtt"
             /\ bbr_state.probe_rtt_done_stamp
                    = current_time + BBRProbeRTTDuration
             /\ ~bbr_state.probe_rtt_round_done
             /\ DrainedForProbeRTT
    /\ SetProbeRTTRoundDone
          => /\ last.kind = "acknowledgement"
             /\ last.prev.b.state = "probe_rtt"
             /\ last.prev.b.probe_rtt_done_stamp # 0
             /\ bbr_state.round_start

\* ProbeRTT left on an ACK later than the stamp, after ACKs that started a
\* round before the stamp had passed.
C31_Witness ==
    /\ LeftProbeRTT
    /\ last.kind = "acknowledgement"
    /\ last.prev.b.probe_rtt_round_done
    /\ current_time > last.prev.b.probe_rtt_done_stamp
    /\ last.prev.b.probe_rtt_done_stamp > 0

\* pacing_gain * bw * (100 - BBRPacingMarginPercent) / 100 on the state the
\* last notification left
PacingRateOfModel ==
    MulDiv(bbr_state.pacing_gain,
           bbr_state.bw * (100 - BBRPacingMarginPercent), 100)

\* C32: while filled_pipe is false, pacing_rate does not decrease across any
\* notification other than Reset; once filled_pipe is true, every ACK that
\* ends outside StartupLongRTT sets pacing_rate to
\* pacing_gain * bw * 99 / 100, also when that is lower.
C32_PacingRate ==
    /\ (Allocated /\ last.kind # "reset" /\ ~bbr_state.filled_pipe)
          => bbr_state.pacing_rate >= last.prev.b.pacing_rate
    /\ (AckProcessed /\ bbr_state.filled_pipe
        /\ bbr_state.state # "startup_long_rtt")
          => bbr_state.pacing_rate = PacingRateOfModel

\* An ACK with the pipe filled lowered the pacing rate to
\* pacing_gain * bw * 99 / 100.
C32_Witness ==
    /\ AckProcessed
    /\ bbr_state.filled_pipe
    /\ bbr_state.state # "startup_long_rtt"
    /\ bbr_state.pacing_rate < last.prev.b.pacing_rate
    /\ bbr_state.pacing_rate = PacingRateOfModel
    /\ bbr_state.pacing_rate > 0

\* The last ACK started a loss round with loss_in_round set (before it or by
\* its own newly lost bytes) while the phase was not a ProbeBW phase.
LossRoundOutsideProbeBW ==
    /\ AckProcessed
    /\ bbr_state.loss_round_start
    /\ ~IsInAProbeBWState(last.prev.b)
    /\ last.prev.b.loss_in_round \/ last.ack.nb_bytes_newly_lost > 0

\* max_bw as BBRUpdateMaxBw leaves it on the last ACK
MaxBwOnAck ==
    BBRUpdateMaxBw(BBRUpdateLatestDeliverySignals(AckContext, AckRateSample),
                   AckRateSample).b.max_bw

\* max(bw_latest, 0.7 * bw_lo), with an unset bw_lo taken as max_bw
AdaptedBwLo ==
    Max(BetaMul(IF last.prev.b.bw_lo = UINT64_MAX THEN MaxBwOnAck
                ELSE last.prev.b.bw_lo),
        Max(last.prev.b.bw_latest, AckRateSample.delivery_rate))

\* max(inflight_latest, 0.7 * inflight_lo), with an unset inflight_lo taken
\* as cwin
AdaptedInflightLo ==
    Max(BetaMul(IF last.prev.b.inflight_lo = UINT64_MAX
                THEN last.prev.p.cwin
                ELSE last.prev.b.inflight_lo),
        Max(last.prev.b.inflight_latest, AckRateSample.delivered))

\* BBRStartProbeBW_REFILL ran on the last ACK (the HyStart tests play a part
\* only for an ACK that arrived in Startup or StartupLongRTT).
AckStartedRefill ==
    /\ AckProcessed
    /\ \E hy \in IF last.prev.b.state \in {"startup", "startup_long_rtt"}
                 THEN HyTestResults ELSE {NoHy} :
          /\ AckBeforeCyclePhaseWith(hy).b.state # "probe_bw_refill"
          /\ BBRUpdateProbeBWCyclePhase(
                 AckBeforeCyclePhaseWith(hy), AckRateSample,
                 current_time).b.state = "probe_bw_refill"

LowerBoundsUnset ==
    /\ bbr_state.bw_lo = UINT64_MAX
    /\ bbr_state.inflight_lo = UINT64_MAX

LowerBoundsKept ==
    /\ bbr_state.bw_lo = last.prev.b.bw_lo
    /\ bbr_state.inflight_lo = last.prev.b.inflight_lo

\* C33: bw_lo and inflight_lo change only on an ACK: one that starts a loss
\* round with loss_in_round set outside the ProbeBW phases makes them
\* max(bw_latest, 0.7 * bw_lo) and max(inflight_latest, 0.7 * inflight_lo),
\* unset bounds being first taken as max_bw and cwin; one that enters
\* ProbeBW_Refill or leaves ProbeRTT leaves both unset; any other ACK and
\* any other notification but Reset leaves them as they were; and
\* loss_in_round is false after every ACK that starts a loss round.
C33_LowerBounds ==
    /\ (Allocated /\ ~(last.kind \in {"acknowledgement", "reset"}))
          => LowerBoundsKept
    /\ AckProcessed
          => /\ IF LeftProbeRTT
                   \/ (bbr_state.state = "probe_bw_refill"
                       /\ last.prev.b.state # "probe_bw_refill")
                THEN LowerBoundsUnset
                ELSE IF LossRoundOutsideProbeBW
                     THEN \/ /\ bbr_state.bw_lo = AdaptedBwLo
                             /\ bbr_state.inflight_lo = AdaptedInflightLo
                          \/ AckStartedRefill /\ LowerBoundsUnset
                     ELSE \/ LowerBoundsKept
                          \/ AckStartedRefill /\ LowerBoundsUnset
             /\ bbr_state.loss_round_start => ~bbr_state.loss_in_round

\* A loss round outside ProbeBW set both bounds from unset ones.
C33_Witness ==
    /\ LossRoundOutsideProbeBW
    /\ last.prev.b.bw_lo = UINT64_MAX
    /\ last.prev.b.inflight_lo = UINT64_MAX
    /\ bbr_state.bw_lo = AdaptedBwLo
    /\ bbr_state.inflight_lo = AdaptedInflightLo
    /\ bbr_state.bw_lo < UINT64_MAX
    /\ bbr_state.inflight_lo < last.prev.p.cwin

\* The last ACK left the controller in StartupLongRTT.
AckLeftInStartupLongRtt ==
    /\ AckProcessed
    /\ bbr_state.state = "startup_long_rtt"

\* peak_bandwidth_estimate * min_rtt / 2, with min_rtt in seconds
HalfPeakBdp ==
    MulDiv(path_x.peak_bandwidth_estimate, bbr_state.min_rtt, 1000000)
        \div 2

\* C34: after every ACK that leaves the controller in StartupLongRTT,
\* cwin >= max(peak_bandwidth_estimate * min_rtt / 2, bdp_seed), also when
\* the seed arrived after StartupLongRTT was entered.
C34_StartupLongRttFloor ==
    AckLeftInStartupLongRtt
        => path_x.cwin >= Max(HalfPeakBdp, bbr_state.bdp_seed)

\* The last ACK arrived in StartupLongRTT and a HyStart test fired on it.
HyStartFiredInStartupLongRtt ==
    /\ AckProcessed
    /\ last.prev.b.state = "startup_long_rtt"
    /\ last.longRttExit

\* The last ACK arrived in StartupLongRTT, no HyStart test fired on it and
\* no ProbeRTT was due.
HyStartQuietInStartupLongRtt ==
    /\ AckProcessed
    /\ last.prev.b.state = "startup_long_rtt"
    /\ ~last.longRttExit
    /\ ~(ProbeRTTExpiredBefore /\ ~last.prev.b.idle_restart)

\* C35: an ACK in StartupLongRTT on which the HyStart RTT test or the
\* loss-volume test fires forces a round start (round_start set,
\* round_count one above what the ACK's own round counting gives,
\* next_round_delivered = delivered + bytes_in_transit), sets filled_pipe
\* and leaves the phase Drain (only with bytes_in_transit above the
\* Inflight(1.0) of BBRCheckDrain), a ProbeBW phase (only with
\* bytes_in_transit within it) or ProbeRTT; an ACK in StartupLongRTT on
\* which neither test fires and no ProbeRTT is due leaves the phase
\* StartupLongRTT and pacing_rate and send_quantum unchanged.
C35_StartupLongRttExit ==
    /\ HyStartFiredInStartupLongRtt
          => /\ bbr_state.round_start
             /\ bbr_state.round_count
                    = last.prev.b.round_count
                      + (IF last.roundCond THEN 2 ELSE 1)
             /\ bbr_state.next_round_delivered
                    = path_x.delivered + path_x.bytes_in_transit
             /\ bbr_state.filled_pipe
             /\ bbr_state.state \in ProbeBWStates \cup {"drain", "probe_rtt"}
             /\ bbr_state.state = "drain" => ~DrainedQueue
             /\ bbr_state.state \in ProbeBWStates => DrainedQueue
    /\ HyStartQuietInStartupLongRtt
          => /\ bbr_state.state = "startup_long_rtt"
             /\ bbr_state.pacing_rate = last.prev.b.pacing_rate
             /\ bbr_state.send_quantum = last.prev.b.send_quantum

\* A HyStart test fired on an ACK in StartupLongRTT that started no round
\* of its own, and the controller is in Drain.
C35_Witness ==
    /\ HyStartFiredInStartupLongRtt
    /\ ~last.roundCond
    /\ bbr_state.round_start
    /\ bbr_state.round_count = last.prev.b.round_count + 1
    /\ bbr_state.state = "drain"

\* C36: after every ACK, if bw_hi is set (not UINT64_MAX) then bw <= bw_hi
\* and bw = min(max_bw, bw_lo, bw_hi).
C36_BwHiBound ==
    (AckProcessed /\ bbr_state.bw_hi # UINT64_MAX)
        => /\ bbr_state.bw <= bbr_state.bw_hi
           /\ bbr_state.bw = Min(Min(bbr_state.max_bw, bbr_state.bw_lo),
                                 bbr_state.bw_hi)

\* C37: after every notification, a phase of Drain or ProbeBW (Down,
\* Cruise, Refill, Up) implies filled_pipe, and the phase Startup implies
\* that filled_pipe is false.
C37_PhaseAndFilledPipe ==
    Allocated
        => /\ bbr_state.state \in ProbeBWStates \cup {"drain"}
                 => bbr_state.filled_pipe
           /\ bbr_state.state = "startup" => ~bbr_state.filled_pipe

\* Startup re-entered from ProbeRTT with the pipe not filled, after an
\* earlier ACK.
C37_Witness ==
    /\ LeftProbeRTT
    /\ bbr_state.state = "startup"
    /\ ~bbr_state.filled_pipe
    /\ bbr_state.round_count > 0

\* A ProbeBW phase, or the ProbeRTT that interrupts ProbeBW (the pipe is
\* filled in every ProbeBW phase and stays filled until a Reset).
InProbeBWOrItsProbeRTT(b) ==
    \/ b.state \in ProbeBWStates
    \/ b.state = "probe_rtt" /\ b.filled_pipe

\* C38: once the phase is a ProbeBW phase, every notification other than
\* Reset leaves it a ProbeBW phase or ProbeRTT, and the ProbeRTT entered
\* from there is left only for a ProbeBW phase; Drain is entered only from
\* Startup or StartupLongRTT.
C38_ProbeBWIsFinal ==
    /\ (NotifiedOtherThanReset /\ InProbeBWOrItsProbeRTT(last.prev.b))
          => InProbeBWOrItsProbeRTT(bbr_state)
    /\ (NotifiedOtherThanReset /\ bbr_state.state = "drain"
        /\ last.prev.b.state # "drain")
          => last.prev.b.state \in {"startup", "startup_long_rtt"}

\* ProbeRTT, with the pipe filled and a ProbeBW cycle started before it,
\* was left for ProbeBW_CRUISE.
C38_Witness ==
    /\ LeftProbeRTT
    /\ last.prev.b.filled_pipe
    /\ last.prev.b.cycle_stamp > 0
    /\ bbr_state.state = "probe_bw_cruise"

\* The last notification carried a sample above the loss threshold to
\* CheckInflightTooHigh (an ACK once the pipe is filled) or to
\* BBRHandleLostPacket (a Repeat or a Timeout).
TooHighSample ==
    /\ Allocated
    /\ LostPacketTooHigh
    /\ \/ last.kind \in {"repeat", "timeout"}
       \/ last.kind = "acknowledgement" /\ bbr_state.filled_pipe

\* The last ACK made the transition from ProbeBW_REFILL to ProbeBW_UP.
AckRefillToUp ==
    /\ AckProcessed
    /\ last.prev.b.state = "probe_bw_refill"
    /\ bbr_state.round_start

\* C39: BBRHandleInflightTooHigh runs at most once per bandwidth probe.
\* bw_probe_samples is 0 or 1 and is 1 throughout ProbeBW_UP; it becomes 1
\* only on the ACK that goes from Refill to Up; a sample above the loss
\* threshold that finds it 1, on an ACK or on a Repeat or Timeout, leaves it
\* 0 (unless the same ACK goes from Refill to Up) and the phase out of
\* ProbeBW_UP; and a sample above the loss threshold that finds it 0 leaves
\* inflight_hi as it was (on an ACK, outside Startup), and on a Repeat or
\* Timeout also the phase and bw_probe_samples.
C39_OncePerBwProbe ==
    /\ Allocated
          => /\ bbr_state.bw_probe_samples \in {0, 1}
             /\ bbr_state.state = "probe_bw_up"
                   => bbr_state.bw_probe_samples = 1
    /\ (NotifiedOtherThanReset /\ last.prev.b.bw_probe_samples = 0
        /\ bbr_state.bw_probe_samples # 0)
          => AckRefillToUp
    /\ (TooHighSample /\ last.prev.b.bw_probe_samples = 1)
          => /\ bbr_state.bw_probe_samples = IF AckRefillToUp THEN 1 ELSE 0
             /\ last.prev.b.state = "probe_bw_up"
                   => bbr_state.state # "probe_bw_up"
    /\ (TooHighSample /\ last.prev.b.bw_probe_samples = 0)
          => /\ last.kind \in {"repeat", "timeout"}
                   => /\ bbr_state.state = last.prev.b.state
                      /\ bbr_state.bw_probe_samples = 0
             /\ last.prev.b.state # "startup"
                   => bbr_state.inflight_hi = last.prev.b.inflight_hi

\* A second Repeat or Timeout above the loss threshold, after the first one
\* ended the probe: bw_probe_samples is 0, inflight_hi is set and the
\* controller state stays as it was.
C39_Witness ==
    /\ TooHighSample
    /\ last.kind \in {"repeat", "timeout"}
    /\ last.prev.b.bw_probe_samples = 0
    /\ last.prev.b.state = "probe_bw_down"
    /\ last.prev.b.inflight_hi > 0
    /\ last.ack.inflight_prior # last.prev.b.inflight_hi
    /\ bbr_state = last.prev.b

\* The last event was an acknowledgement that found the controller in
\* ProbeBW_UP, the only phase in which BBRAdaptUpperBounds calls
\* BBRProbeInflightHiUpward.
AckFoundProbeBWUp ==
    /\ Allocated
    /\ last.kind = "acknowledgement"
    /\ last.prev.b.state = "probe_bw_up"

\* C40: the growth step of inflight_hi never divides by zero and never
\* shifts too far.  bw_probe_up_rounds is at most 30 and send_mtu is
\* positive in every state, so the growth per round, send_mtu shifted by
\* the rounds, is positive and fits 64 bits; bw_probe_up_cnt is at least 1
\* in ProbeBW_UP, hence on every acknowledgement that finds the controller
\* there and may run BBRProbeInflightHiUpward, although it is 0 after Init
\* and after a reset, which leave the controller outside ProbeBW_UP; and
\* an event that finds the controller outside ProbeBW_UP does not run the
\* growth step: it leaves bw_probe_up_acks alone or zeroes it for a refill.
C40_GrowthStep ==
    /\ Allocated
          => /\ bbr_state.bw_probe_up_rounds \in 0..BBRProbeUpRoundsMax
             /\ path_x.send_mtu > 0
             /\ Mul64(path_x.send_mtu, 2^bbr_state.bw_probe_up_rounds) > 0
             /\ bbr_state.state = "probe_bw_up"
                   => bbr_state.bw_probe_up_cnt >= 1
    /\ AckFoundProbeBWUp
          => /\ last.prev.b.bw_probe_up_cnt >= 1
             /\ last.prev.b.bw_probe_up_rounds <= BBRProbeUpRoundsMax
    /\ (Allocated /\ last.kind \in {"init", "reset"})
          => /\ bbr_state.bw_probe_up_cnt = 0
             /\ bbr_state.state # "probe_bw_up"
    /\ (NotifiedOtherThanReset /\ last.prev.b.state # "probe_bw_up")
          => bbr_state.bw_probe_up_acks \in {last.prev.b.bw_probe_up_acks, 0}

\* An acknowledgement from a sender limited by its window found the
\* controller in ProbeBW_UP with bw_probe_up_rounds at its cap of 30,
\* completed a round, raised inflight_hi and left the rounds at 30.
C40_Witness ==
    /\ AckFoundProbeBWUp
    /\ last.ack.is_cwnd_limited
    /\ last.prev.b.bw_probe_up_rounds = BBRProbeUpRoundsMax
    /\ bbr_state.state = "probe_bw_up"
    /\ bbr_state.round_start
    /\ bbr_state.bw_probe_up_rounds = BBRProbeUpRoundsMax
    /\ bbr_state.bw_probe_up_cnt = 1
    /\ bbr_state.inflight_hi > last.prev.b.inflight_hi

=============================================================================
